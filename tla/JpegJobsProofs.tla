--------------------------- MODULE JpegJobsProofs ---------------------------
(***************************************************************************)
(* Proofs about JpegJobs, for any clients, jobs and failures: no client is *)
(* answered twice or after it has dropped a job, and one component works   *)
(* at a time.                                                              *)
(***************************************************************************)
EXTENDS JpegJobs, FiniteSetTheorems, SequenceTheorems, WellFoundedInduction, TLAPS

Ats == {"closed", "idle", "lock", "cond", "woken", "join"}
Outcomes == {"new", "asked", "answered", "dropped", "over", "wrong"}
Thread == [at : Ats, op : {"none", "abort", "destroy"}, job : Jobs \cup {NoJob},
           stopping : BOOLEAN, opens : Nat, sessions : Nat]
Session == [active : BOOLEAN, abort_flag : BOOLEAN, encoding : BOOLEAN, jobId : Jobs \cup {NoJob}]
Component == [work : Jobs \cup {NoJob}, idling : BOOLEAN, cb : {"none", "fbd"}]

\* The type invariant of the job manager.
TypeOK ==
  /\ cl \in [Clients -> Thread]
  /\ ses \in [Clients -> Session]
  /\ omx \in [Clients -> Component]
  /\ job_lock \in Clients \cup {Nobody, "mgr"}
  /\ job_queue \in Seq(Jobs \cup {Exit})
  /\ ongoing \in Seq(Jobs)
  /\ job_sem \in Nat
  /\ mgr \in [at : {"gone", "wait", "lock", "encode"}, job : Jobs \cup {NoJob}]
  /\ outcome \in [Jobs -> Outcomes]

Queued(j) == \E i \in DOMAIN job_queue : job_queue[i] = j
Distinct(q) == \A i, k \in DOMAIN q : q[i] = q[k] /\ q[i] # Exit => i = k

\* Who is in a call, and who holds the job manager's lock.
CallInv ==
  /\ \A c \in Clients : (job_lock = c) <=> (cl[c].at \in {"cond", "woken"})
  /\ (job_lock = "mgr") <=> (mgr.at = "encode")
  /\ \A c, d \in Clients : cl[c].at \notin Resting /\ cl[d].at \notin Resting => c = d
  /\ \A c \in Clients : cl[c].at \in {"closed", "join"} => ~ses[c].active
  /\ \A c, d \in Clients : cl[c].at = "join" /\ d # c => cl[d].at = "closed"
  /\ \A c \in Clients : cl[c].at \in {"lock", "cond", "woken"} =>
                          \/ cl[c].op = "abort" /\ cl[c].job \in JobsOf(c)
                          \/ cl[c].op = "destroy"

\* A job that is to do is in the queue once, unanswered, and its session is there.
QueueInv ==
  /\ Distinct(job_queue)
  /\ \A j \in Jobs : Queued(j) => outcome[j] = "asked" /\ ses[Client(j)].active

\* At most one job is ongoing, and none works while the thread starts the next.
OngoingInv ==
  /\ Len(ongoing) <= 1
  /\ mgr.at = "lock" => ongoing = <<>>
  /\ mgr.at = "encode" =>
       LET c == Client(mgr.job) IN
       /\ mgr.job \in Jobs /\ ongoing = <<mgr.job>> /\ ses[c].jobId = mgr.job
       /\ ses[c].active /\ ~ses[c].abort_flag
       /\ outcome[mgr.job] = "asked" /\ ~Queued(mgr.job)
       /\ \A d \in Clients : omx[d].work = NoJob

\* What a component works on is its session's job, unanswered; it is ongoing, unless the
\* session is aborted, and then somebody waits for the component.
WorkOK(c) ==
  /\ omx[c].work # NoJob =>
       /\ Client(omx[c].work) = c /\ ses[c].jobId = omx[c].work
       /\ ses[c].active /\ ses[c].encoding
       /\ IF ses[c].abort_flag THEN cl[c].at = "cond" ELSE ongoing = <<omx[c].work>>
       /\ outcome[omx[c].work] = "asked" /\ ~Queued(omx[c].work)
  /\ omx[c].cb = "fbd" => omx[c].work # NoJob
WorkInv == \A c \in Clients : WorkOK(c)

\* What an abort or a destroy drops is not to do any more, and the component is done with
\* it when the wait is over.
WaitOK(c) ==
  /\ cl[c].at = "cond" => ses[c].abort_flag
  /\ cl[c].at \in {"cond", "woken"} /\ cl[c].op = "abort" => ~Queued(cl[c].job)
  /\ cl[c].at \in {"cond", "woken"} /\ cl[c].op = "destroy" => \A j \in JobsOf(c) : ~Queued(j)
  /\ cl[c].at = "woken" /\ cl[c].op = "abort" => omx[c].work # cl[c].job
  /\ cl[c].at = "woken" /\ cl[c].op = "destroy" => omx[c].work = NoJob
WaitInv == \A c \in Clients : WaitOK(c)

\* The components of two sessions never work at the same time.
OneAtATime == \A c, d \in Clients : omx[c].work # NoJob /\ omx[d].work # NoJob => c = d

Inv == /\ TypeOK /\ CallInv /\ QueueInv /\ OngoingInv /\ WorkInv /\ WaitInv
       /\ OneAtATime /\ AnsweredOnce

-----------------------------------------------------------------------------
(* The operators of the model.                                             *)

\* A job belongs to a client and is neither NoJob nor EXIT.
LEMMA JobFacts ==
  /\ \A j \in Jobs : Client(j) \in Clients /\ j # NoJob /\ j # Exit
  /\ \A c \in Clients : c # Nobody /\ c # "mgr"
  /\ Nobody # "mgr"
<1>1. ASSUME NEW j \in Jobs PROVE Client(j) \in Clients /\ j # NoJob /\ j # Exit
  <2>1. PICK c \in Clients : j \in {c} \X (1..MaxJobs[c])
    BY DEF Jobs
  <2>2. j[1] = c /\ j[2] \in 1..MaxJobs[c] /\ MaxJobs[c] \in Nat
    BY <2>1, JpegAssumption
  <2>3. j[2] # 0
    BY <2>2
  <2> QED BY <2>2, <2>3 DEF Client, NoJob, Exit
<1> QED BY <1>1, JpegAssumption DEF Nobody

NatLess == {ss \in Nat \X Nat : ss[1] < ss[2]}

\* A non-empty set of naturals has a least element.
LEMMA LeastOf ==
  ASSUME NEW S \in SUBSET Nat, S # {}
  PROVE  \E i \in S : \A j \in S : i <= j
<1>1. IsWellFoundedOn(NatLess, Nat)
  BY NatLessThanWellFounded DEF NatLess, OpToRel
<1>2. PICK i \in S : \A j \in S : ~ (<<j, i>> \in NatLess)
  BY <1>1, WFMin
<1>3. ASSUME NEW j \in S PROVE i <= j
  <2>1. i \in Nat /\ j \in Nat
    OBVIOUS
  <2>2. <<j, i>> \in NatLess <=> j < i
    BY <2>1 DEF NatLess
  <2> QED BY <1>2, <2>1, <2>2
<1> QED BY <1>3

UpTo(q, S, i) == {k \in Kept(q, S) : k <= i}

\* The sets that Place counts: finite, growing with their bound, by one at most.
LEMMA UpToFacts ==
  ASSUME NEW T, NEW q \in Seq(T), NEW S
  PROVE  /\ IsFiniteSet(Kept(q, S)) /\ Cardinality(Kept(q, S)) \in 0..Len(q)
         /\ Kept(q, S) \subseteq 1..Len(q)
         /\ UpTo(q, S, 0) = {} /\ UpTo(q, S, Len(q)) = Kept(q, S)
         /\ \A i \in 0..Len(q) : /\ IsFiniteSet(UpTo(q, S, i))
                                 /\ Place(q, S, i) \in 0..Cardinality(Kept(q, S))
                                 /\ Place(q, S, i) = Cardinality(UpTo(q, S, i))
         /\ \A i \in 1..Len(q) : Place(q, S, i) = IF i \in Kept(q, S) THEN Place(q, S, i - 1) + 1
                                                  ELSE Place(q, S, i - 1)
         /\ \A i, j \in 0..Len(q) : i <= j => Place(q, S, i) <= Place(q, S, j)
<1>1. Len(q) \in Nat /\ DOMAIN q = 1..Len(q)
  BY LenProperties
<1>2. Kept(q, S) \subseteq 1..Len(q)
  BY <1>1 DEF Kept
<1>3. IsFiniteSet(1..Len(q)) /\ Cardinality(1..Len(q)) = Len(q)
  BY <1>1, FS_Interval
<1>4. IsFiniteSet(Kept(q, S)) /\ Cardinality(Kept(q, S)) \in 0..Len(q)
  BY <1>1, <1>2, <1>3, FS_Subset, FS_CardinalityType
<1>5. UpTo(q, S, 0) = {} /\ UpTo(q, S, Len(q)) = Kept(q, S)
  BY <1>1, <1>2 DEF UpTo
<1>6. ASSUME NEW i \in 0..Len(q)
      PROVE  /\ IsFiniteSet(UpTo(q, S, i))
             /\ Place(q, S, i) \in 0..Cardinality(Kept(q, S))
             /\ Place(q, S, i) = Cardinality(UpTo(q, S, i))
  <2>1. UpTo(q, S, i) \subseteq Kept(q, S) /\ Place(q, S, i) = Cardinality(UpTo(q, S, i))
    BY DEF UpTo, Place
  <2> QED BY <2>1, <1>4, FS_Subset, FS_CardinalityType
<1>7. ASSUME NEW i \in 1..Len(q)
      PROVE  Place(q, S, i) = IF i \in Kept(q, S) THEN Place(q, S, i - 1) + 1
                              ELSE Place(q, S, i - 1)
  <2>1. UpTo(q, S, i) = IF i \in Kept(q, S) THEN UpTo(q, S, i - 1) \cup {i} ELSE UpTo(q, S, i - 1)
    BY <1>1, <1>2 DEF UpTo
  <2>2. i \notin UpTo(q, S, i - 1) /\ i - 1 \in 0..Len(q) /\ i \in 0..Len(q)
    BY <1>1 DEF UpTo
  <2>3. IsFiniteSet(UpTo(q, S, i - 1))
    BY <2>2, <1>6
  <2>4. Cardinality(UpTo(q, S, i - 1) \cup {i}) = Cardinality(UpTo(q, S, i - 1)) + 1
    BY <2>2, <2>3, FS_AddElement
  <2>5. /\ Place(q, S, i) = Cardinality(UpTo(q, S, i))
        /\ Place(q, S, i - 1) = Cardinality(UpTo(q, S, i - 1))
    BY <2>2, <1>6
  <2> QED BY <2>1, <2>4, <2>5
<1>8. ASSUME NEW i \in 0..Len(q), NEW j \in 0..Len(q), i <= j
      PROVE  Place(q, S, i) <= Place(q, S, j)
  <2>1. UpTo(q, S, i) \subseteq UpTo(q, S, j)
    BY <1>1, <1>2, <1>8 DEF UpTo
  <2>2. Cardinality(UpTo(q, S, i)) <= Cardinality(UpTo(q, S, j))
    BY <2>1, <1>6, FS_Subset
  <2> QED BY <2>2, <1>6
<1> QED BY <1>2, <1>4, <1>5, <1>6, <1>7, <1>8

\* Each place of what is left is that of exactly one element that is kept.
LEMMA PlaceFacts ==
  ASSUME NEW T, NEW q \in Seq(T), NEW S
  PROVE  /\ \A i \in Kept(q, S) : Place(q, S, i) \in 1..Cardinality(Kept(q, S))
         /\ \A i, j \in Kept(q, S) : Place(q, S, i) = Place(q, S, j) => i = j
         /\ \A n \in 1..Cardinality(Kept(q, S)) : \E i \in Kept(q, S) : Place(q, S, i) = n
<1>1. Len(q) \in Nat /\ Kept(q, S) \subseteq 1..Len(q) /\ Cardinality(Kept(q, S)) \in Nat
  BY UpToFacts, LenProperties
<1>2. ASSUME NEW i \in Kept(q, S)
      PROVE  /\ i \in 1..Len(q) /\ i - 1 \in 0..Len(q)
             /\ Place(q, S, i) = Place(q, S, i - 1) + 1
             /\ Place(q, S, i - 1) \in Nat /\ Place(q, S, i) \in 1..Cardinality(Kept(q, S))
  <2>1. i \in 1..Len(q) /\ i - 1 \in 0..Len(q) /\ i \in 0..Len(q)
    BY <1>1
  <2>2. Place(q, S, i) = Place(q, S, i - 1) + 1
    BY <2>1, UpToFacts
  <2>3. Place(q, S, i - 1) \in 0..Cardinality(Kept(q, S)) /\ Place(q, S, i) \in 0..Cardinality(Kept(q, S))
    BY <2>1, UpToFacts
  <2> QED BY <1>1, <2>1, <2>2, <2>3
<1>3. ASSUME NEW i \in Kept(q, S), NEW j \in Kept(q, S), i < j
      PROVE  Place(q, S, i) # Place(q, S, j)
  <2>1. i \in 0..Len(q) /\ j - 1 \in 0..Len(q) /\ i <= j - 1
    BY <1>1, <1>3
  <2>2. Place(q, S, i) <= Place(q, S, j - 1)
    BY <2>1, UpToFacts
  <2> QED BY <2>2, <1>2
<1>4. ASSUME NEW i \in Kept(q, S), NEW j \in Kept(q, S), Place(q, S, i) = Place(q, S, j)
      PROVE  i = j
  <2>1. i < j \/ j < i \/ i = j
    BY <1>1
  <2> QED BY <2>1, <1>3, <1>4
<1>5. ASSUME NEW n \in 1..Cardinality(Kept(q, S))
      PROVE  \E i \in Kept(q, S) : Place(q, S, i) = n
  <2> DEFINE W == {i \in 0..Len(q) : Place(q, S, i) >= n}
  <2>1. Len(q) \in 0..Len(q) /\ 0 \in 0..Len(q)
    BY <1>1
  <2>2. Place(q, S, Len(q)) = Cardinality(Kept(q, S))
    BY <2>1, UpToFacts
  <2>3. Len(q) \in W
    BY <1>1, <2>1, <2>2
  <2>4. PICK i \in W : \A j \in W : i <= j
    <3>1. W \in SUBSET Nat /\ W # {}
      BY <1>1, <2>3
    <3> HIDE DEF W
    <3> QED BY <3>1, LeastOf
  <2>5. Place(q, S, 0) = 0
    BY <2>1, UpToFacts, FS_EmptySet
  <2>6. i \in 1..Len(q) /\ i - 1 \in 0..Len(q) /\ Place(q, S, i) >= n
    BY <1>1, <2>4, <2>5
  <2>7. i - 1 \notin W
    BY <2>4, <2>6
  <2>8. Place(q, S, i - 1) \in Nat /\ Place(q, S, i - 1) < n
    <3>1. Place(q, S, i - 1) \in 0..Cardinality(Kept(q, S))
      BY <2>6, UpToFacts
    <3> QED BY <1>1, <2>6, <2>7, <3>1
  <2>9. Place(q, S, i) = IF i \in Kept(q, S) THEN Place(q, S, i - 1) + 1 ELSE Place(q, S, i - 1)
    BY <2>6, UpToFacts
  <2>10. i \in Kept(q, S) /\ Place(q, S, i) = n
    BY <2>6, <2>8, <2>9
  <2> QED BY <2>10
<1> QED BY <1>2, <1>4, <1>5

\* Without leaves exactly the elements outside S, each where one was.
LEMMA WithoutFacts ==
  ASSUME NEW T, NEW q \in Seq(T), NEW S
  PROVE  LET r == Without(q, S) IN
         /\ r \in Seq(T) /\ Len(r) <= Len(q)
         /\ \E at \in [1..Len(r) -> 1..Len(q)] :
              /\ \A n \in 1..Len(r) : r[n] = q[at[n]] /\ q[at[n]] \notin S
              /\ \A n, m \in 1..Len(r) : at[n] = at[m] => n = m
              /\ \A i \in 1..Len(q) : q[i] \notin S => \E n \in 1..Len(r) : at[n] = i
<1> DEFINE K == Kept(q, S)
           card == Cardinality(K)
           at == [n \in 1..card |-> CHOOSE i \in K : Place(q, S, i) = n]
           r == Without(q, S)
<1>1. Len(q) \in Nat /\ DOMAIN q = 1..Len(q) /\ card \in 0..Len(q) /\ K \subseteq 1..Len(q)
  BY UpToFacts, LenProperties
<1>2. \A n \in 1..card : at[n] \in K /\ Place(q, S, at[n]) = n
  <2> SUFFICES ASSUME NEW n \in 1..card
               PROVE  at[n] \in K /\ Place(q, S, at[n]) = n
    OBVIOUS
  <2>1. at[n] = CHOOSE i \in K : Place(q, S, i) = n
    OBVIOUS
  <2>2. \E i \in K : Place(q, S, i) = n
    BY PlaceFacts
  <2> HIDE DEF at
  <2> QED BY <2>1, <2>2
<1>3. r = [n \in 1..card |-> q[at[n]]]
  BY DEF Without
<1>4. at \in [1..card -> 1..Len(q)]
  BY <1>1, <1>2
<1> HIDE DEF at
<1>5. \A n \in 1..card : q[at[n]] \in T /\ q[at[n]] \notin S
  <2>1. \A i \in 1..Len(q) : q[i] \in T
    BY ElementOfSeq
  <2>2. \A i \in K : q[i] \notin S
    BY DEF Kept
  <2> QED BY <1>2, <1>4, <2>1, <2>2
<1>6. r \in Seq(T) /\ Len(r) = card
  <2>1. r \in [1..card -> T] /\ card \in Nat
    BY <1>1, <1>3, <1>5
  <2> QED BY <2>1
<1>7. \A n, m \in 1..card : at[n] = at[m] => n = m
  BY <1>2
<1>8. \A i \in 1..Len(q) : q[i] \notin S => \E n \in 1..card : at[n] = i
  <2> SUFFICES ASSUME NEW i \in 1..Len(q), q[i] \notin S
               PROVE  \E n \in 1..card : at[n] = i
    OBVIOUS
  <2>1. i \in K
    BY <1>1 DEF Kept
  <2>2. Place(q, S, i) \in 1..card
    BY <2>1, PlaceFacts
  <2>3. at[Place(q, S, i)] \in K /\ Place(q, S, at[Place(q, S, i)]) = Place(q, S, i)
    BY <1>2, <2>2
  <2>4. at[Place(q, S, i)] = i
    BY <2>1, <2>3, PlaceFacts
  <2> QED BY <2>2, <2>4
<1>9. \A n \in 1..card : r[n] = q[at[n]]
  BY <1>3
<1> HIDE DEF card, r
<1>10. /\ \A n \in 1..Len(r) : r[n] = q[at[n]] /\ q[at[n]] \notin S
       /\ \A n, m \in 1..Len(r) : at[n] = at[m] => n = m
       /\ \A i \in 1..Len(q) : q[i] \notin S => \E n \in 1..Len(r) : at[n] = i
       /\ at \in [1..Len(r) -> 1..Len(q)] /\ Len(r) <= Len(q)
  BY <1>1, <1>4, <1>5, <1>6, <1>7, <1>8, <1>9
<1> QED BY <1>6, <1>10 DEF r

-----------------------------------------------------------------------------
(* What the steps do to a thread, a session, a component and the queues.   *)

\* No other thread is moved.
Moves(c) == cl' \in [Clients -> Thread] /\ \A d \in Clients \ {c} : cl'[d] = cl[d]

\* To only changes where the thread is.
LEMMA ToFacts ==
  ASSUME TypeOK, NEW c \in Clients, NEW at \in Ats, cl' = To(c, at)
  PROVE  Moves(c) /\ cl'[c].at = at /\ cl'[c].op = cl[c].op /\ cl'[c].job = cl[c].job
BY DEF To, Thread, TypeOK, Moves

\* Back ends the call of a thread.
LEMMA BackFacts ==
  ASSUME TypeOK, NEW c \in Clients
  PROVE  /\ Back(c) \in [Clients -> Thread]
         /\ Back(c)[c].at = "idle" /\ Back(c)[c].op = "none" /\ Back(c)[c].job = NoJob
         /\ \A d \in Clients \ {c} : Back(c)[d] = cl[d]
<1>1. cl \in [Clients -> Thread]
  BY DEF TypeOK
<1> QED BY <1>1 DEF Back, Thread, Ats

\* Signal wakes the thread of a client if it waits for the component.
LEMMA SignalFacts ==
  ASSUME TypeOK, NEW c \in Clients, Signal(c)
  PROVE  /\ Moves(c) /\ cl'[c].op = cl[c].op /\ cl'[c].job = cl[c].job
         /\ cl'[c].at = IF cl[c].at = "cond" THEN "woken" ELSE cl[c].at
<1>1. CASE cl[c].at = "cond"
  BY <1>1, ToFacts DEF Signal, Ats
<1>2. CASE cl[c].at # "cond"
  BY <1>2 DEF Signal, TypeOK, Moves
<1> QED BY <1>1, <1>2

\* The members of a queue after some were removed.
LEMMA LeftFacts ==
  ASSUME NEW T, NEW q \in Seq(T), NEW S
  PROVE  LET r == Without(q, S) IN
         /\ r \in Seq(T) /\ Len(r) <= Len(q)
         /\ Distinct(q) => Distinct(r)
         /\ \A j : (\E n \in DOMAIN r : r[n] = j) <=> (j \notin S /\ \E i \in DOMAIN q : q[i] = j)
<1> DEFINE r == Without(q, S)
<1>1. r \in Seq(T) /\ Len(r) <= Len(q)
  BY WithoutFacts
<1>2. PICK at \in [1..Len(r) -> 1..Len(q)] :
              /\ \A n \in 1..Len(r) : r[n] = q[at[n]] /\ q[at[n]] \notin S
              /\ \A n, m \in 1..Len(r) : at[n] = at[m] => n = m
              /\ \A i \in 1..Len(q) : q[i] \notin S => \E n \in 1..Len(r) : at[n] = i
  BY WithoutFacts
<1>3. DOMAIN q = 1..Len(q) /\ DOMAIN r = 1..Len(r)
  BY <1>1, LenProperties
<1> HIDE DEF r
<1>4. Distinct(q) => Distinct(r)
  BY <1>2, <1>3 DEF Distinct
<1>5. \A j : (\E n \in DOMAIN r : r[n] = j) <=> (j \notin S /\ \E i \in DOMAIN q : q[i] = j)
  <2>1. ASSUME NEW n \in DOMAIN r PROVE r[n] \notin S /\ \E i \in DOMAIN q : q[i] = r[n]
    <3>1. at[n] \in DOMAIN q /\ r[n] = q[at[n]] /\ q[at[n]] \notin S
      BY <1>2, <1>3
    <3> QED BY <3>1
  <2>2. ASSUME NEW i \in DOMAIN q, q[i] \notin S PROVE \E n \in DOMAIN r : r[n] = q[i]
    BY <1>2, <1>3, <2>2
  <2> QED BY <2>1, <2>2
<1> QED BY <1>1, <1>4, <1>5 DEF r

\* Jobs leave the queue.
LEMMA QueueCut ==
  ASSUME TypeOK, Distinct(job_queue), NEW S, job_queue' = Without(job_queue, S)
  PROVE  /\ job_queue' \in Seq(Jobs \cup {Exit}) /\ Distinct(job_queue')
         /\ \A j \in Jobs : Queued(j)' <=> Queued(j) /\ j \notin S
<1>1. job_queue \in Seq(Jobs \cup {Exit})
  BY DEF TypeOK
<1> QED BY <1>1, LeftFacts DEF Queued

\* The first leaves the queue.
LEMMA QueueTail ==
  ASSUME TypeOK, Distinct(job_queue), job_queue # <<>>, job_queue' = Tail(job_queue)
  PROVE  /\ job_queue' \in Seq(Jobs \cup {Exit}) /\ Distinct(job_queue')
         /\ Head(job_queue) \in Jobs \cup {Exit}
         /\ \A j \in Jobs : Queued(j)' => Queued(j) /\ j # Head(job_queue)
         /\ Head(job_queue) \in Jobs => Queued(Head(job_queue))
<1>1. job_queue \in Seq(Jobs \cup {Exit})
  BY DEF TypeOK
<1>2. Len(job_queue) \in Nat \ {0} /\ DOMAIN job_queue = 1..Len(job_queue)
  BY <1>1, LenProperties, EmptySeq
<1>3. /\ Head(job_queue) \in Jobs \cup {Exit} /\ job_queue' \in Seq(Jobs \cup {Exit})
      /\ Len(job_queue') = Len(job_queue) - 1
      /\ \A i \in 1..Len(job_queue') : job_queue'[i] = job_queue[i + 1]
  BY <1>1, HeadTailProperties
<1>4. DOMAIN job_queue' = 1..Len(job_queue')
  BY <1>3, LenProperties
<1>5. Head(job_queue) = job_queue[1]
  BY <1>1
<1>6. Distinct(job_queue')
  <2> SUFFICES ASSUME NEW i \in DOMAIN job_queue', NEW k \in DOMAIN job_queue',
                      job_queue'[i] = job_queue'[k], job_queue'[i] # Exit
               PROVE  i = k
    BY DEF Distinct
  <2>1. i + 1 \in DOMAIN job_queue /\ k + 1 \in DOMAIN job_queue
    BY <1>2, <1>3, <1>4
  <2>2. job_queue[i + 1] = job_queue[k + 1] /\ job_queue[i + 1] # Exit
    BY <1>3, <1>4
  <2>3. i + 1 = k + 1
    BY <2>1, <2>2 DEF Distinct
  <2> QED BY <1>3, <1>4, <2>3
<1>7. ASSUME NEW j \in Jobs, Queued(j)' PROVE Queued(j) /\ j # Head(job_queue)
  <2>1. PICK i \in DOMAIN job_queue' : job_queue'[i] = j
    BY <1>7 DEF Queued
  <2>2. i + 1 \in DOMAIN job_queue /\ 1 \in DOMAIN job_queue /\ i + 1 # 1 /\ job_queue[i + 1] = j
    BY <2>1, <1>2, <1>3, <1>4
  <2>3. j # Exit
    BY JobFacts
  <2> QED BY <2>2, <2>3, <1>5 DEF Queued, Distinct
<1>8. Queued(Head(job_queue))
  BY <1>2, <1>5 DEF Queued
<1> QED BY <1>3, <1>6, <1>7, <1>8

\* A job, or EXIT, is put in the queue.
LEMMA QueueAdd ==
  ASSUME TypeOK, Distinct(job_queue), NEW x \in Jobs \cup {Exit},
         x = Exit \/ ~Queued(x), job_queue' = Append(job_queue, x)
  PROVE  /\ job_queue' \in Seq(Jobs \cup {Exit}) /\ Distinct(job_queue')
         /\ \A j \in Jobs : Queued(j)' => Queued(j) \/ j = x
<1>1. job_queue \in Seq(Jobs \cup {Exit})
  BY DEF TypeOK
<1>2. Len(job_queue) \in Nat /\ DOMAIN job_queue = 1..Len(job_queue)
  BY <1>1, LenProperties
<1>3. /\ job_queue' \in Seq(Jobs \cup {Exit}) /\ Len(job_queue') = Len(job_queue) + 1
      /\ \A i \in 1..Len(job_queue) : job_queue'[i] = job_queue[i]
      /\ job_queue'[Len(job_queue) + 1] = x
  BY <1>1, AppendProperties
<1>4. DOMAIN job_queue' = 1..(Len(job_queue) + 1)
  BY <1>3, LenProperties
<1>5. \A i \in DOMAIN job_queue' : i \in DOMAIN job_queue \/ i = Len(job_queue) + 1
  BY <1>2, <1>4
<1>6. \A i \in DOMAIN job_queue : job_queue[i] # x \/ x = Exit
  BY DEF Queued
<1>7. Distinct(job_queue')
  BY <1>2, <1>3, <1>5, <1>6 DEF Distinct
<1>8. \A j \in Jobs : Queued(j)' => Queued(j) \/ j = x
  BY <1>2, <1>3, <1>5 DEF Queued
<1> QED BY <1>3, <1>7, <1>8

\* A job is no longer ongoing.
LEMMA OngoingCut ==
  ASSUME TypeOK, Len(ongoing) <= 1, NEW S, ongoing' = Without(ongoing, S)
  PROVE  /\ ongoing' \in Seq(Jobs) /\ Len(ongoing') <= 1
         /\ ongoing = <<>> => ongoing' = <<>>
         /\ \A w : ongoing = <<w>> /\ w \notin S => ongoing' = <<w>>
<1>1. ongoing \in Seq(Jobs) /\ Len(ongoing) \in Nat
  BY LenProperties DEF TypeOK
<1>2. /\ ongoing' \in Seq(Jobs) /\ Len(ongoing') <= Len(ongoing)
      /\ \A j : (\E n \in DOMAIN ongoing' : ongoing'[n] = j)
                <=> (j \notin S /\ \E i \in DOMAIN ongoing : ongoing[i] = j)
  BY <1>1, LeftFacts
<1>3. Len(ongoing') \in Nat /\ DOMAIN ongoing' = 1..Len(ongoing') /\ Len(ongoing') <= 1
  BY <1>1, <1>2, LenProperties
<1>4. ongoing = <<>> => ongoing' = <<>>
  BY <1>2, <1>3, EmptySeq
<1>5. ASSUME NEW w, ongoing = <<w>>, w \notin S PROVE ongoing' = <<w>>
  <2>1. 1 \in DOMAIN ongoing /\ ongoing[1] = w
    BY <1>5
  <2>2. PICK n \in DOMAIN ongoing' : ongoing'[n] = w
    BY <1>2, <1>5, <2>1
  <2>3. Len(ongoing') = 1 /\ n = 1
    BY <2>2, <1>3
  <2> QED BY <1>2, <2>2, <2>3
<1> QED BY <1>2, <1>3, <1>4, <1>5

\* A client is told of a job that it has asked for.
LEMMA AnswerFacts ==
  ASSUME TypeOK, AnsweredOnce, NEW j \in Jobs, outcome[j] = "asked", Answer(j)
  PROVE  /\ outcome' \in [Jobs -> Outcomes] /\ AnsweredOnce'
         /\ \A k \in Jobs : k # j => outcome'[k] = outcome[k]
BY DEF Answer, TypeOK, AnsweredOnce, Outcomes

\* A client drops jobs.
LEMMA DropFacts ==
  ASSUME TypeOK, AnsweredOnce, NEW S, Drop(S)
  PROVE  /\ outcome' \in [Jobs -> Outcomes] /\ AnsweredOnce'
         /\ \A k \in Jobs : k \notin S => outcome'[k] = outcome[k]
BY DEF Drop, TypeOK, AnsweredOnce, Outcomes

\* A component goes on with its job.
LEMMA WorkKept ==
  ASSUME Inv, NEW c \in Clients, omx'[c] = omx[c], ses'[c] = ses[c],
         cl[c].at = "cond" => cl'[c].at = "cond",
         ongoing = <<omx[c].work>> => ongoing' = ongoing,
         \A j \in Jobs : omx[c].work = j /\ outcome[j] = "asked" =>
                           outcome'[j] = "asked" /\ (Queued(j)' => Queued(j))
  PROVE  WorkOK(c)'
<1>1. WorkOK(c) /\ omx[c].work \in Jobs \cup {NoJob}
  BY DEF Inv, WorkInv, TypeOK, Component
<1> QED BY <1>1 DEF WorkOK

\* A thread stays where it is.
LEMMA WaitKept ==
  ASSUME Inv, NEW c \in Clients, cl'[c].at = cl[c].at, cl'[c].op = cl[c].op, cl'[c].job = cl[c].job,
         ses[c].abort_flag => ses'[c].abort_flag,
         cl[c].at = "woken" => omx'[c].work \in {omx[c].work, NoJob},
         \A j \in Jobs : cl[c].at \in {"cond", "woken"} => (Queued(j)' => Queued(j))
  PROVE  WaitOK(c)'
<1>1. /\ WaitOK(c)
      /\ cl[c].at \in {"cond", "woken"} =>
           (cl[c].op = "abort" /\ cl[c].job \in Jobs) \/ cl[c].op = "destroy"
  BY DEF Inv, WaitInv, CallInv, JobsOf
<1> QED BY <1>1, JobFacts DEF WaitOK, JobsOf

-----------------------------------------------------------------------------
(* Each action preserves the invariant.                                    *)

\* Open preserves the invariant.
LEMMA OpenStep ==
  ASSUME Inv, NEW c \in Clients, Open(c)
  PROVE  Inv'
<1> USE JobFacts DEF Inv, JobsOf
<1>1. /\ cl[c].at = "closed" /\ \A d \in Clients : cl[d].at \in Resting
      /\ Moves(c) /\ cl'[c].at = "idle"
      /\ ses' \in [Clients -> Session] /\ ~ses'[c].active /\ \A d \in Clients \ {c} : ses'[d] = ses[d]
      /\ mgr' = mgr \/ (mgr'.at = "wait" /\ mgr'.job = NoJob /\ mgr.at # "encode")
      /\ mgr' \in [at : {"gone", "wait", "lock", "encode"}, job : Jobs \cup {NoJob}]
  <2>1. cl[c].at = "closed" /\ \A d \in Clients : cl[d].at \in Resting
    BY DEF Open, IntfFree
  <2>2. Moves(c) /\ cl'[c].at = "idle"
    <3>1. cl \in [Clients -> Thread] /\ cl[c].opens - 1 \in Nat /\ MaxSessions \in Nat
      BY JpegAssumption DEF Open, TypeOK, Thread
    <3>2. cl' = [cl EXCEPT ![c].at = "idle", ![c].opens = @ - 1, ![c].sessions = MaxSessions]
      BY DEF Open
    <3> QED BY <3>1, <3>2 DEF Moves, Thread, Ats
  <2>3. ses' \in [Clients -> Session] /\ ~ses'[c].active /\ \A d \in Clients \ {c} : ses'[d] = ses[d]
    BY DEF Open, TypeOK, Session
  <2>4. mgr.at = "encode" => Opened # {}
    BY DEF OngoingInv, CallInv, Opened
  <2>5. /\ mgr' = mgr \/ (mgr'.at = "wait" /\ mgr'.job = NoJob /\ mgr.at # "encode")
        /\ mgr' \in [at : {"gone", "wait", "lock", "encode"}, job : Jobs \cup {NoJob}]
    <3>1. mgr' = IF Opened = {} THEN [at |-> "wait", job |-> NoJob] ELSE mgr
      BY DEF Open
    <3>2. mgr \in [at : {"gone", "wait", "lock", "encode"}, job : Jobs \cup {NoJob}]
      BY DEF TypeOK
    <3>3. CASE Opened = {}
      BY <2>4, <3>1, <3>3
    <3>4. CASE Opened # {}
      BY <3>1, <3>2, <3>4
    <3> QED BY <3>3, <3>4
  <2> QED BY <2>1, <2>2, <2>3, <2>5
<1>2. UNCHANGED <<omx, job_lock, job_queue, ongoing, job_sem, outcome>>
  BY DEF Open
<1>3. Distinct(job_queue') /\ \A k \in Jobs : Queued(k)' => Queued(k)
  BY <1>2 DEF QueueInv, Queued
<1>4. TypeOK'
  BY <1>1, <1>2, <1>3 DEF TypeOK, Moves
<1>5. CallInv'
  BY <1>1, <1>2, <1>3 DEF CallInv, Moves, Resting
<1>6. QueueInv'
  BY <1>1, <1>2, <1>3 DEF QueueInv, CallInv
<1>7. OngoingInv'
  <2>1. CASE mgr' = mgr
    BY <1>1, <1>2, <1>3, <2>1 DEF OngoingInv, CallInv
  <2>2. CASE mgr'.at = "wait"
    BY <1>2, <2>2 DEF OngoingInv
  <2> QED BY <1>1, <2>1, <2>2
<1>8. WorkInv'
  <2>1. ASSUME NEW d \in Clients, d # c PROVE WorkOK(d)'
    BY <1>1, <1>2, <1>3, <2>1, WorkKept DEF Moves
  <2>2. WorkOK(c)'
    BY <1>1, <1>2 DEF WorkOK, WorkInv, CallInv
  <2> QED BY <2>1, <2>2 DEF WorkInv
<1>9. WaitInv'
  <2>1. ASSUME NEW d \in Clients, d # c PROVE WaitOK(d)'
    BY <1>1, <1>2, <1>3, <2>1, WaitKept DEF Moves
  <2>2. WaitOK(c)'
    BY <1>1 DEF WaitOK
  <2> QED BY <2>1, <2>2 DEF WaitInv
<1>10. OneAtATime' /\ AnsweredOnce'
  BY <1>1, <1>2 DEF OneAtATime, AnsweredOnce
<1> QED BY <1>4, <1>5, <1>6, <1>7, <1>8, <1>9, <1>10

\* CreateSession preserves the invariant.
LEMMA CreateSessionStep ==
  ASSUME Inv, NEW c \in Clients, CreateSession(c)
  PROVE  Inv'
<1> USE JobFacts DEF Inv, JobsOf
<1>1. /\ cl[c].at = "idle" /\ ~ses[c].active
      /\ Moves(c) /\ cl'[c].at = cl[c].at
      /\ ses' \in [Clients -> Session] /\ \A d \in Clients \ {c} : ses'[d] = ses[d]
      /\ omx' \in [Clients -> Component] /\ \A d \in Clients \ {c} : omx'[d] = omx[d]
      /\ omx'[c].work = NoJob /\ omx'[c].cb = "none"
  <2>1. cl[c].at = "idle" /\ ~ses[c].active
    BY DEF CreateSession
  <2>2. Moves(c) /\ cl'[c].at = cl[c].at
    <3>1. cl \in [Clients -> Thread] /\ cl[c].sessions - 1 \in Nat
      BY DEF CreateSession, TypeOK, Thread
    <3>2. cl' = [cl EXCEPT ![c].sessions = @ - 1]
      BY DEF CreateSession
    <3> QED BY <3>1, <3>2 DEF Moves, Thread
  <2>3. ses' \in [Clients -> Session] /\ \A d \in Clients \ {c} : ses'[d] = ses[d]
    <3>1. ses \in [Clients -> Session] /\ ses' = [ses EXCEPT ![c].active = TRUE, ![c].abort_flag = FALSE]
      BY DEF TypeOK, CreateSession
    <3> QED BY <3>1 DEF Session
  <2>4. omx' \in [Clients -> Component] /\ \A d \in Clients \ {c} : omx'[d] = omx[d]
    BY DEF CreateSession, TypeOK, FreshOmx, Component
  <2>5. omx'[c].work = NoJob /\ omx'[c].cb = "none"
    BY DEF CreateSession, TypeOK, FreshOmx
  <2> QED BY <2>1, <2>2, <2>3, <2>4, <2>5
<1>2. UNCHANGED <<job_lock, job_queue, ongoing, job_sem, mgr, outcome>>
  BY DEF CreateSession
<1>3. Distinct(job_queue') /\ \A k \in Jobs : Queued(k)' => Queued(k)
  BY <1>2 DEF QueueInv, Queued
<1>4. TypeOK'
  BY <1>1, <1>2, <1>3 DEF TypeOK, Moves
<1>5. CallInv'
  BY <1>1, <1>2, <1>3 DEF CallInv, Moves, Resting
<1>6. QueueInv'
  BY <1>1, <1>2, <1>3 DEF QueueInv
<1>7. OngoingInv'
  BY <1>1, <1>2, <1>3 DEF OngoingInv, TypeOK
<1>8. WorkInv'
  <2>1. ASSUME NEW d \in Clients, d # c PROVE WorkOK(d)'
    BY <1>1, <1>2, <1>3, <2>1, WorkKept DEF Moves
  <2>2. WorkOK(c)'
    BY <1>1 DEF WorkOK
  <2> QED BY <2>1, <2>2 DEF WorkInv
<1>9. WaitInv'
  <2>1. ASSUME NEW d \in Clients, d # c PROVE WaitOK(d)'
    BY <1>1, <1>2, <1>3, <2>1, WaitKept DEF Moves
  <2>2. WaitOK(c)'
    BY <1>1 DEF WaitOK
  <2> QED BY <2>1, <2>2 DEF WaitInv
<1>10. OneAtATime' /\ AnsweredOnce'
  BY <1>1, <1>2 DEF OneAtATime, AnsweredOnce
<1> QED BY <1>4, <1>5, <1>6, <1>7, <1>8, <1>9, <1>10

\* StartJob preserves the invariant.
LEMMA StartJobStep ==
  ASSUME Inv, NEW j \in Jobs, StartJob(j)
  PROVE  Inv'
<1> USE JobFacts DEF Inv, JobsOf
<1>1. /\ \A d \in Clients : cl[d].at \in Resting
      /\ ses[Client(j)].active /\ outcome[j] = "new" /\ ~Queued(j)
      /\ job_sem' \in Nat /\ job_queue' = Append(job_queue, j)
      /\ outcome' \in [Jobs -> Outcomes] /\ outcome'[j] = "asked"
      /\ \A k \in Jobs : k # j => outcome'[k] = outcome[k]
  BY DEF StartJob, IntfFree, QueueInv, TypeOK, Outcomes
<1>2. UNCHANGED <<cl, ses, omx, job_lock, ongoing, mgr>>
  BY DEF StartJob
<1>3. /\ job_queue' \in Seq(Jobs \cup {Exit}) /\ Distinct(job_queue')
      /\ \A k \in Jobs : Queued(k)' => Queued(k) \/ k = j
  BY <1>1, QueueAdd DEF QueueInv
<1>4. TypeOK'
  BY <1>1, <1>2, <1>3 DEF TypeOK, Moves
<1>5. CallInv'
  BY <1>1, <1>2, <1>3 DEF CallInv, Moves, Resting
<1>6. QueueInv'
  BY <1>1, <1>2, <1>3 DEF QueueInv, TypeOK
<1>7. OngoingInv'
  BY <1>1, <1>2, <1>3 DEF OngoingInv, TypeOK
<1>8. WorkInv'
  <2>1. ASSUME NEW d \in Clients PROVE WorkOK(d)'
    BY <1>1, <1>2, <1>3, WorkKept DEF Moves
  <2> QED BY <2>1 DEF WorkInv
<1>9. WaitInv'
  BY <1>1, <1>2 DEF WaitInv, WaitOK, Resting
<1>10. OneAtATime' /\ AnsweredOnce'
  BY <1>1, <1>2 DEF OneAtATime, AnsweredOnce
<1> QED BY <1>4, <1>5, <1>6, <1>7, <1>8, <1>9, <1>10

\* CallAbort preserves the invariant.
LEMMA CallAbortStep ==
  ASSUME Inv, NEW j \in Jobs, CallAbort(j)
  PROVE  Inv'
<1> USE JobFacts DEF Inv, JobsOf
<1>1. /\ \A d \in Clients : cl[d].at \in Resting
      /\ cl[Client(j)].at = "idle" /\ ses[Client(j)].active
      /\ Moves(Client(j)) /\ cl'[Client(j)].at = "lock"
      /\ cl'[Client(j)].op = "abort" /\ cl'[Client(j)].job = j
  <2>1. PICK c \in Clients : c = Client(j)
    BY JobFacts
  <2>2. cl \in [Clients -> Thread]
    BY DEF TypeOK
  <2> DEFINE mid == [cl EXCEPT ![c].at = "lock", ![c].op = "abort"]
             more == [mid EXCEPT ![c].job = j]
  <2>3. /\ mid \in [Clients -> Thread] /\ mid[c].at = "lock" /\ mid[c].op = "abort"
        /\ \A d \in Clients \ {c} : mid[d] = cl[d]
    BY <2>2 DEF Thread, Ats
  <2>4. cl' = [more EXCEPT ![c].stopping = TRUE]
    BY <2>1 DEF CallAbort
  <2> HIDE DEF mid
  <2>5. /\ more \in [Clients -> Thread] /\ more[c].at = "lock" /\ more[c].op = "abort"
        /\ more[c].job = j /\ \A d \in Clients \ {c} : more[d] = cl[d]
    BY <2>3 DEF Thread
  <2> HIDE DEF more
  <2>6. /\ cl' \in [Clients -> Thread] /\ cl'[c].at = "lock" /\ cl'[c].op = "abort"
        /\ cl'[c].job = j /\ \A d \in Clients \ {c} : cl'[d] = cl[d]
    BY <2>4, <2>5 DEF Thread
  <2>7. cl[c].at = "idle" /\ ses[c].active /\ \A d \in Clients : cl[d].at \in Resting
    BY <2>1 DEF CallAbort, IntfFree
  <2> QED BY <2>1, <2>6, <2>7 DEF Moves
<1>2. UNCHANGED <<ses, omx, job_lock, job_queue, ongoing, job_sem, mgr, outcome>>
  BY DEF CallAbort
<1>3. Distinct(job_queue') /\ \A k \in Jobs : Queued(k)' => Queued(k)
  BY <1>2 DEF QueueInv, Queued
<1>4. TypeOK'
  BY <1>1, <1>2, <1>3 DEF TypeOK, Moves
<1>5. CallInv'
  BY <1>1, <1>2, <1>3 DEF CallInv, Moves, Resting
<1>6. QueueInv'
  BY <1>1, <1>2, <1>3 DEF QueueInv, TypeOK
<1>7. OngoingInv'
  BY <1>1, <1>2, <1>3 DEF OngoingInv, TypeOK
<1>8. WorkInv'
  <2>1. ASSUME NEW d \in Clients PROVE WorkOK(d)'
    BY <1>1, <1>2, <1>3, WorkKept DEF Moves
  <2> QED BY <2>1 DEF WorkInv
<1>9. WaitInv'
  <2>1. ASSUME NEW d \in Clients, d # Client(j) PROVE WaitOK(d)'
    BY <1>1, <1>2, <1>3, <2>1, WaitKept DEF Moves
  <2>2. WaitOK(Client(j))'
    BY <1>1 DEF WaitOK
  <2> QED BY <2>1, <2>2 DEF WaitInv
<1>10. OneAtATime' /\ AnsweredOnce'
  BY <1>1, <1>2 DEF OneAtATime, AnsweredOnce
<1> QED BY <1>4, <1>5, <1>6, <1>7, <1>8, <1>9, <1>10

\* CallDestroy preserves the invariant.
LEMMA CallDestroyStep ==
  ASSUME Inv, NEW c \in Clients, CallDestroy(c)
  PROVE  Inv'
<1> USE JobFacts DEF Inv, JobsOf
<1>1. /\ \A d \in Clients : cl[d].at \in Resting
      /\ cl[c].at = "idle" /\ ses[c].active
      /\ Moves(c) /\ cl'[c].at = "lock" /\ cl'[c].op = "destroy"
  <2>1. cl \in [Clients -> Thread]
    BY DEF TypeOK
  <2>2. cl' = [cl EXCEPT ![c].at = "lock", ![c].op = "destroy"]
    BY DEF CallDestroy
  <2>3. /\ cl' \in [Clients -> Thread] /\ cl'[c].at = "lock" /\ cl'[c].op = "destroy"
        /\ \A d \in Clients \ {c} : cl'[d] = cl[d]
    BY <2>1, <2>2 DEF Thread, Ats
  <2>4. cl[c].at = "idle" /\ ses[c].active /\ \A d \in Clients : cl[d].at \in Resting
    BY DEF CallDestroy, IntfFree
  <2> QED BY <2>3, <2>4 DEF Moves
<1>2. UNCHANGED <<ses, omx, job_lock, job_queue, ongoing, job_sem, mgr, outcome>>
  BY DEF CallDestroy
<1>3. Distinct(job_queue') /\ \A k \in Jobs : Queued(k)' => Queued(k)
  BY <1>2 DEF QueueInv, Queued
<1>4. TypeOK'
  BY <1>1, <1>2, <1>3 DEF TypeOK, Moves
<1>5. CallInv'
  BY <1>1, <1>2, <1>3 DEF CallInv, Moves, Resting
<1>6. QueueInv'
  BY <1>1, <1>2, <1>3 DEF QueueInv, TypeOK
<1>7. OngoingInv'
  BY <1>1, <1>2, <1>3 DEF OngoingInv, TypeOK
<1>8. WorkInv'
  <2>1. ASSUME NEW d \in Clients PROVE WorkOK(d)'
    BY <1>1, <1>2, <1>3, WorkKept DEF Moves
  <2> QED BY <2>1 DEF WorkInv
<1>9. WaitInv'
  <2>1. ASSUME NEW d \in Clients, d # c PROVE WaitOK(d)'
    BY <1>1, <1>2, <1>3, <2>1, WaitKept DEF Moves
  <2>2. WaitOK(c)'
    BY <1>1 DEF WaitOK
  <2> QED BY <2>1, <2>2 DEF WaitInv
<1>10. OneAtATime' /\ AnsweredOnce'
  BY <1>1, <1>2 DEF OneAtATime, AnsweredOnce
<1> QED BY <1>4, <1>5, <1>6, <1>7, <1>8, <1>9, <1>10

\* The session is aborted: the component is waited for if it may still be at work.
LEMMA SessionAbortFacts ==
  ASSUME Inv, NEW c \in Clients, cl[c].at = "lock", SessionAbort(c)
  PROVE  /\ Moves(c) /\ cl'[c].op = cl[c].op /\ cl'[c].job = cl[c].job
         /\ cl'[c].at \in {"cond", "woken"} /\ (cl'[c].at = "woken" => omx[c].work = NoJob)
         /\ ses' \in [Clients -> Session] /\ \A d \in Clients \ {c} : ses'[d] = ses[d]
         /\ ses'[c].abort_flag /\ ses'[c].active = ses[c].active
         /\ ses'[c].encoding = ses[c].encoding /\ ses'[c].jobId = ses[c].jobId
         /\ omx' \in [Clients -> Component] /\ \A d \in Clients \ {c} : omx'[d] = omx[d]
         /\ omx'[c].work = omx[c].work /\ omx'[c].cb = omx[c].cb
<1>1. /\ Moves(c) /\ cl'[c].op = cl[c].op /\ cl'[c].job = cl[c].job
      /\ cl'[c].at = IF Waiting(c) THEN "cond" ELSE "woken"
  BY ToFacts DEF SessionAbort, Inv, Ats
<1>2. omx[c].work # NoJob => Waiting(c)
  BY DEF Inv, WorkInv, WorkOK, Waiting
<1>3. /\ ses' \in [Clients -> Session] /\ \A d \in Clients \ {c} : ses'[d] = ses[d]
      /\ ses'[c].abort_flag /\ ses'[c].active = ses[c].active
      /\ ses'[c].encoding = ses[c].encoding /\ ses'[c].jobId = ses[c].jobId
  <2>1. ses \in [Clients -> Session] /\ ses' = [ses EXCEPT ![c].abort_flag = TRUE]
    BY DEF Inv, TypeOK, SessionAbort
  <2> QED BY <2>1 DEF Session
<1>4. /\ omx' \in [Clients -> Component] /\ \A d \in Clients \ {c} : omx'[d] = omx[d]
      /\ omx'[c].work = omx[c].work /\ omx'[c].cb = omx[c].cb
  <2> DEFINE b == omx[c].idling \/ (ses[c].encoding /\ ~ses[c].abort_flag)
  <2>1. omx \in [Clients -> Component] /\ b \in BOOLEAN
    BY DEF Inv, TypeOK, Component
  <2>2. omx' = [omx EXCEPT ![c].idling = b]
    BY DEF SessionAbort
  <2> HIDE DEF b
  <2> QED BY <2>1, <2>2 DEF Component
<1> QED BY <1>1, <1>2, <1>3, <1>4

\* AbortJob preserves the invariant.
LEMMA AbortJobStep ==
  ASSUME Inv, NEW c \in Clients, AbortJob(c)
  PROVE  Inv'
<1> USE JobFacts DEF Inv, JobsOf
<1>1. /\ cl[c].at = "lock" /\ cl[c].op = "abort" /\ cl[c].job \in JobsOf(c)
      /\ job_lock = Nobody /\ job_lock' = c /\ mgr.at # "encode"
      /\ Moves(c) /\ cl'[c].op = cl[c].op /\ cl'[c].job = cl[c].job /\ cl'[c].at \in {"cond", "woken"}
      /\ ses' \in [Clients -> Session] /\ \A d \in Clients \ {c} : ses'[d] = ses[d]
      /\ ses'[c].active = ses[c].active
      /\ omx' \in [Clients -> Component] /\ \A d \in Clients \ {c} : omx'[d] = omx[d]
      /\ omx'[c].work = omx[c].work /\ omx'[c].cb = omx[c].cb
      /\ \/ /\ ses'[c].abort_flag /\ (cl'[c].at = "woken" => omx[c].work = NoJob)
            /\ ses'[c].jobId = ses[c].jobId /\ ses'[c].encoding = ses[c].encoding
         \/ ses' = ses /\ omx' = omx /\ cl'[c].at = "woken" /\ omx[c].work # cl[c].job
      /\ ongoing' \in Seq(Jobs) /\ Len(ongoing') <= 1 /\ (ongoing = <<>> => ongoing' = <<>>)
      /\ \A w : ongoing = <<w>> /\ w # cl[c].job => ongoing' = <<w>>
  <2> DEFINE j == cl[c].job
             todo == j \in {job_queue[i] : i \in DOMAIN job_queue}
             started == j \in {ongoing[i] : i \in DOMAIN ongoing}
  <2>1. /\ cl[c].at = "lock" /\ cl[c].op = "abort" /\ j \in JobsOf(c)
        /\ job_lock = Nobody /\ job_lock' = c /\ mgr.at # "encode"
    BY DEF AbortJob, CallInv
  <2>2. ongoing' = ongoing \/ ongoing' = Without(ongoing, {j})
    BY DEF AbortJob
  <2>3. /\ ongoing' \in Seq(Jobs) /\ Len(ongoing') <= 1 /\ (ongoing = <<>> => ongoing' = <<>>)
        /\ \A w : ongoing = <<w>> /\ w # j => ongoing' = <<w>>
    <3>1. CASE ongoing' = ongoing
      BY <3>1 DEF TypeOK, OngoingInv
    <3>2. CASE ongoing' = Without(ongoing, {j})
      <4> DEFINE S == {j}
      <4> HIDE DEF j, todo, started
      <4>1. \A w : w # j => w \notin S
        OBVIOUS
      <4> HIDE DEF S
      <4>2. ongoing' = Without(ongoing, S)
        BY <3>2 DEF S
      <4> QED BY <4>1, <4>2, OngoingCut DEF OngoingInv
    <3> QED BY <2>2, <3>1, <3>2
  <2>4. CASE ~todo /\ started
    <3>1. SessionAbort(c)
      BY <2>4 DEF AbortJob
    <3> HIDE DEF todo, started
    <3> QED BY <2>1, <2>3, <3>1, SessionAbortFacts
  <2>5. CASE todo \/ ~started
    <3>1. cl' = To(c, "woken") /\ UNCHANGED <<ses, omx>>
      BY <2>5 DEF AbortJob
    <3>2. Moves(c) /\ cl'[c].op = cl[c].op /\ cl'[c].job = cl[c].job /\ cl'[c].at = "woken"
      BY <3>1, ToFacts DEF Ats
    <3>3. omx[c].work # j
      <4> SUFFICES ASSUME omx[c].work = j PROVE FALSE
        OBVIOUS
      <4>1. ongoing = <<j>> /\ ~Queued(j)
        BY <2>1 DEF WorkInv, WorkOK
      <4>2. started
        BY <4>1
      <4>3. ~todo
        BY <4>1 DEF Queued
      <4> QED BY <2>5, <4>2, <4>3
    <3>4. ses' = ses /\ omx' = omx /\ ses \in [Clients -> Session] /\ omx \in [Clients -> Component]
      BY <3>1 DEF TypeOK
    <3> HIDE DEF todo, started
    <3> QED BY <2>1, <2>3, <3>2, <3>3, <3>4
  <2> QED BY <2>4, <2>5
<1>2. UNCHANGED <<job_sem, mgr, outcome>>
  BY DEF AbortJob
<1>3. /\ job_queue' \in Seq(Jobs \cup {Exit}) /\ Distinct(job_queue')
      /\ \A j \in Jobs : Queued(j)' <=> Queued(j) /\ j # cl[c].job
  <2>1. job_queue' = Without(job_queue, {cl[c].job})
    BY DEF AbortJob
  <2> QED BY <2>1, QueueCut DEF QueueInv
<1>4. TypeOK'
  BY <1>1, <1>2, <1>3 DEF TypeOK, Moves
<1>5. CallInv'
  <2>1. /\ cl[c].at = "lock" /\ cl[c].op = "abort" /\ cl[c].job \in JobsOf(c)
        /\ job_lock = Nobody /\ job_lock' = c /\ mgr.at # "encode"
        /\ Moves(c) /\ cl'[c].op = cl[c].op /\ cl'[c].job = cl[c].job
        /\ cl'[c].at \in {"cond", "woken"} /\ \A d \in Clients : ses'[d].active = ses[d].active
    BY <1>1
  <2> QED BY <1>2, <2>1 DEF CallInv, Moves, Resting
<1>6. QueueInv'
  BY <1>1, <1>2, <1>3 DEF QueueInv, TypeOK
<1>7. OngoingInv'
  BY <1>1, <1>2, <1>3 DEF OngoingInv, TypeOK
<1>8. WorkInv'
  <2>1. ASSUME NEW d \in Clients, d # c PROVE WorkOK(d)'
    <3>1. WorkOK(d)
      BY DEF WorkInv
    <3>2. omx[d].work # NoJob => omx[d].work # cl[c].job
      BY <1>1, <2>1, <3>1 DEF WorkOK
    <3> QED BY <1>1, <1>2, <1>3, <2>1, <3>1, <3>2, WorkKept DEF Moves, WorkOK
  <2>2. WorkOK(c)'
    <3>1. WorkOK(c) /\ omx[c].work \in Jobs \cup {NoJob}
      BY DEF WorkInv, TypeOK, Component
    <3> QED BY <1>1, <1>2, <1>3, <3>1 DEF WorkOK
  <2> QED BY <2>1, <2>2 DEF WorkInv
<1>9. WaitInv'
  <2>1. ASSUME NEW d \in Clients, d # c PROVE WaitOK(d)'
    BY <1>1, <1>2, <1>3, <2>1, WaitKept DEF Moves
  <2>2. WaitOK(c)'
    BY <1>1, <1>2, <1>3 DEF WaitOK, CallInv
  <2> QED BY <2>1, <2>2 DEF WaitInv
<1>10. OneAtATime' /\ AnsweredOnce'
  BY <1>1, <1>2 DEF OneAtATime, AnsweredOnce
<1> QED BY <1>4, <1>5, <1>6, <1>7, <1>8, <1>9, <1>10

\* DestroySession preserves the invariant.
LEMMA DestroySessionStep ==
  ASSUME Inv, NEW c \in Clients, DestroySession(c)
  PROVE  Inv'
<1> USE JobFacts DEF Inv, JobsOf
<1>1. /\ cl[c].at = "lock" /\ cl[c].op = "destroy"
      /\ job_lock = Nobody /\ job_lock' = c /\ mgr.at # "encode"
      /\ Moves(c) /\ cl'[c].op = cl[c].op /\ cl'[c].job = cl[c].job /\ cl'[c].at \in {"cond", "woken"}
      /\ ses' \in [Clients -> Session] /\ \A d \in Clients \ {c} : ses'[d] = ses[d]
      /\ ses'[c].active = ses[c].active
      /\ omx' \in [Clients -> Component] /\ \A d \in Clients \ {c} : omx'[d] = omx[d]
      /\ omx'[c].work = omx[c].work /\ omx'[c].cb = omx[c].cb
      /\ ses'[c].abort_flag /\ (cl'[c].at = "woken" => omx[c].work = NoJob)
      /\ ses'[c].jobId = ses[c].jobId /\ ses'[c].encoding = ses[c].encoding
      /\ ongoing' \in Seq(Jobs) /\ Len(ongoing') <= 1 /\ (ongoing = <<>> => ongoing' = <<>>)
      /\ \A w : ongoing = <<w>> /\ w \notin JobsOf(c) => ongoing' = <<w>>
  <2>1. /\ cl[c].at = "lock" /\ cl[c].op = "destroy"
        /\ job_lock = Nobody /\ job_lock' = c /\ mgr.at # "encode"
    BY DEF DestroySession, CallInv
  <2>2. ongoing' = Without(ongoing, JobsOf(c)) /\ SessionAbort(c)
    BY DEF DestroySession
  <2>3. /\ ongoing' \in Seq(Jobs) /\ Len(ongoing') <= 1 /\ (ongoing = <<>> => ongoing' = <<>>)
        /\ \A w : ongoing = <<w>> /\ w \notin JobsOf(c) => ongoing' = <<w>>
    BY <2>2, OngoingCut DEF OngoingInv
  <2> QED BY <2>1, <2>2, <2>3, SessionAbortFacts
<1>2. UNCHANGED <<job_sem, mgr, outcome>>
  BY DEF DestroySession
<1>3. /\ job_queue' \in Seq(Jobs \cup {Exit}) /\ Distinct(job_queue')
      /\ \A j \in Jobs : Queued(j)' <=> Queued(j) /\ j \notin JobsOf(c)
  <2>1. job_queue' = Without(job_queue, JobsOf(c))
    BY DEF DestroySession
  <2> QED BY <2>1, QueueCut DEF QueueInv
<1>4. TypeOK'
  BY <1>1, <1>2, <1>3 DEF TypeOK, Moves
<1>5. CallInv'
  BY <1>1, <1>2, <1>3 DEF CallInv, Moves, Resting
<1>6. QueueInv'
  BY <1>1, <1>2, <1>3 DEF QueueInv, TypeOK
<1>7. OngoingInv'
  BY <1>1, <1>2, <1>3 DEF OngoingInv, TypeOK
<1>8. WorkInv'
  <2>1. ASSUME NEW d \in Clients, d # c PROVE WorkOK(d)'
    <3>1. WorkOK(d)
      BY DEF WorkInv
    <3>2. omx[d].work # NoJob => omx[d].work \notin JobsOf(c)
      BY <1>1, <2>1, <3>1 DEF WorkOK
    <3> QED BY <1>1, <1>2, <1>3, <2>1, <3>1, <3>2, WorkKept DEF Moves, WorkOK
  <2>2. WorkOK(c)'
    <3>1. WorkOK(c) /\ omx[c].work \in Jobs \cup {NoJob}
      BY DEF WorkInv, TypeOK, Component
    <3> QED BY <1>1, <1>2, <1>3, <3>1 DEF WorkOK
  <2> QED BY <2>1, <2>2 DEF WorkInv
<1>9. WaitInv'
  <2>1. ASSUME NEW d \in Clients, d # c PROVE WaitOK(d)'
    BY <1>1, <1>2, <1>3, <2>1, WaitKept DEF Moves
  <2>2. WaitOK(c)'
    BY <1>1, <1>2, <1>3 DEF WaitOK, CallInv
  <2> QED BY <2>1, <2>2 DEF WaitInv
<1>10. OneAtATime' /\ AnsweredOnce'
  BY <1>1, <1>2 DEF OneAtATime, AnsweredOnce
<1> QED BY <1>4, <1>5, <1>6, <1>7, <1>8, <1>9, <1>10

\* AbortReturns preserves the invariant.
LEMMA AbortReturnsStep ==
  ASSUME Inv, NEW c \in Clients, AbortReturns(c)
  PROVE  Inv'
<1> USE JobFacts DEF Inv, JobsOf
<1>1. /\ cl[c].at = "woken" /\ cl[c].op = "abort" /\ cl[c].job \in JobsOf(c)
      /\ job_lock = c /\ job_lock' = Nobody /\ mgr.at # "encode"
      /\ Moves(c) /\ cl'[c].at = "idle"
      /\ outcome' \in [Jobs -> Outcomes] /\ AnsweredOnce'
      /\ \A k \in Jobs : k # cl[c].job => outcome'[k] = outcome[k]
  <2>1. cl[c].at = "woken" /\ cl[c].op = "abort" /\ cl' = Back(c) /\ job_lock' = Nobody
    BY DEF AbortReturns
  <2>2. Drop({cl[c].job})
    BY DEF AbortReturns
  <2>3. /\ outcome' \in [Jobs -> Outcomes] /\ AnsweredOnce'
        /\ \A k \in Jobs : k # cl[c].job => outcome'[k] = outcome[k]
    BY <2>2, DropFacts
  <2>4. Moves(c) /\ cl'[c].at = "idle"
    BY <2>1, BackFacts DEF Moves
  <2>5. job_lock = c /\ cl[c].job \in JobsOf(c) /\ mgr.at # "encode"
    BY <2>1 DEF CallInv
  <2> QED BY <2>1, <2>3, <2>4, <2>5
<1>2. UNCHANGED <<ses, omx, job_queue, ongoing, job_sem, mgr>>
  BY DEF AbortReturns
<1>3. Distinct(job_queue') /\ \A k \in Jobs : Queued(k)' => Queued(k)
  BY <1>2 DEF QueueInv, Queued
<1>4. TypeOK'
  BY <1>1, <1>2, <1>3 DEF TypeOK, Moves
<1>5. CallInv'
  BY <1>1, <1>2, <1>3 DEF CallInv, Moves, Resting
<1>6. QueueInv'
  BY <1>1, <1>2, <1>3 DEF QueueInv, WaitInv, WaitOK
<1>7. OngoingInv'
  BY <1>1, <1>2, <1>3 DEF OngoingInv, TypeOK
<1>8. WorkInv'
  <2>1. ASSUME NEW d \in Clients, d # c PROVE WorkOK(d)'
    <3>1. WorkOK(d)
      BY DEF WorkInv
    <3>2. omx[d].work # NoJob => omx[d].work # cl[c].job
      BY <1>1, <2>1, <3>1 DEF WorkOK
    <3> QED BY <1>1, <1>2, <1>3, <2>1, <3>1, <3>2, WorkKept DEF Moves
  <2>2. WorkOK(c)'
    BY <1>1, <1>2, <1>3, WorkKept DEF Moves, WaitInv, WaitOK
  <2> QED BY <2>1, <2>2 DEF WorkInv
<1>9. WaitInv'
  <2>1. ASSUME NEW d \in Clients, d # c PROVE WaitOK(d)'
    BY <1>1, <1>2, <1>3, <2>1, WaitKept DEF Moves
  <2>2. WaitOK(c)'
    BY <1>1 DEF WaitOK
  <2> QED BY <2>1, <2>2 DEF WaitInv
<1>10. OneAtATime' /\ AnsweredOnce'
  BY <1>1, <1>2 DEF OneAtATime, AnsweredOnce
<1> QED BY <1>4, <1>5, <1>6, <1>7, <1>8, <1>9, <1>10

\* DestroyReturns preserves the invariant.
LEMMA DestroyReturnsStep ==
  ASSUME Inv, NEW c \in Clients, DestroyReturns(c)
  PROVE  Inv'
<1> USE JobFacts DEF Inv, JobsOf
<1>1. /\ cl[c].at = "woken" /\ cl[c].op = "destroy"
      /\ job_lock = c /\ job_lock' = Nobody /\ job_sem' \in Nat /\ mgr.at # "encode"
      /\ Moves(c) /\ cl'[c].at = "idle"
      /\ ses' \in [Clients -> Session] /\ \A d \in Clients \ {c} : ses'[d] = ses[d]
      /\ omx' \in [Clients -> Component] /\ \A d \in Clients \ {c} : omx'[d] = omx[d]
      /\ omx'[c].work = NoJob /\ omx'[c].cb = "none"
      /\ outcome' \in [Jobs -> Outcomes] /\ AnsweredOnce'
      /\ \A k \in Jobs : k \notin JobsOf(c) => outcome'[k] = outcome[k]
  <2>1. /\ cl[c].at = "woken" /\ cl[c].op = "destroy" /\ job_lock' = Nobody
        /\ cl' = [Back(c) EXCEPT ![c].stopping = FALSE]
    BY DEF DestroyReturns
  <2>2. Drop(JobsOf(c))
    BY DEF DestroyReturns
  <2>3. /\ outcome' \in [Jobs -> Outcomes] /\ AnsweredOnce'
        /\ \A k \in Jobs : k \notin JobsOf(c) => outcome'[k] = outcome[k]
    BY <2>2, DropFacts
  <2>4. Moves(c) /\ cl'[c].at = "idle"
    <3> DEFINE back == Back(c)
    <3>1. /\ back \in [Clients -> Thread] /\ back[c].at = "idle"
          /\ \A d \in Clients \ {c} : back[d] = cl[d]
      BY BackFacts
    <3>2. cl' = [back EXCEPT ![c].stopping = FALSE]
      BY <2>1
    <3> HIDE DEF back
    <3> QED BY <3>1, <3>2 DEF Moves, Thread
  <2>5. job_lock = c /\ mgr.at # "encode"
    BY <2>1 DEF CallInv
  <2>6. ses' \in [Clients -> Session] /\ \A d \in Clients \ {c} : ses'[d] = ses[d]
    <3>1. ses \in [Clients -> Session] /\ ses' = [ses EXCEPT ![c].active = FALSE]
      BY DEF TypeOK, DestroyReturns
    <3> QED BY <3>1 DEF Session
  <2>7. /\ omx' \in [Clients -> Component] /\ \A d \in Clients \ {c} : omx'[d] = omx[d]
        /\ omx'[c].work = NoJob /\ omx'[c].cb = "none"
    <3>1. omx \in [Clients -> Component] /\ omx' = [omx EXCEPT ![c] = FreshOmx]
      BY DEF TypeOK, DestroyReturns
    <3> QED BY <3>1 DEF Component, FreshOmx
  <2>8. job_sem' \in Nat
    BY DEF DestroyReturns, Post, TypeOK
  <2> QED BY <2>1, <2>3, <2>4, <2>5, <2>6, <2>7, <2>8
<1>2. UNCHANGED <<job_queue, ongoing, mgr>>
  BY DEF DestroyReturns
<1>3. Distinct(job_queue') /\ \A k \in Jobs : Queued(k)' => Queued(k)
  BY <1>2 DEF QueueInv, Queued
<1>4. TypeOK'
  BY <1>1, <1>2, <1>3 DEF TypeOK, Moves
<1>5. CallInv'
  BY <1>1, <1>2, <1>3 DEF CallInv, Moves, Resting
<1>6. QueueInv'
  BY <1>1, <1>2, <1>3 DEF QueueInv, WaitInv, WaitOK
<1>7. OngoingInv'
  BY <1>1, <1>2, <1>3 DEF OngoingInv, TypeOK
<1>8. WorkInv'
  <2>1. ASSUME NEW d \in Clients, d # c PROVE WorkOK(d)'
    <3>1. WorkOK(d)
      BY DEF WorkInv
    <3>2. omx[d].work # NoJob => omx[d].work \notin JobsOf(c)
      BY <1>1, <2>1, <3>1 DEF WorkOK
    <3> QED BY <1>1, <1>2, <1>3, <2>1, <3>1, <3>2, WorkKept DEF Moves
  <2>2. WorkOK(c)'
    BY <1>1 DEF WorkOK
  <2> QED BY <2>1, <2>2 DEF WorkInv
<1>9. WaitInv'
  <2>1. ASSUME NEW d \in Clients, d # c PROVE WaitOK(d)'
    BY <1>1, <1>2, <1>3, <2>1, WaitKept DEF Moves
  <2>2. WaitOK(c)'
    BY <1>1 DEF WaitOK
  <2> QED BY <2>1, <2>2 DEF WaitInv
<1>10. OneAtATime' /\ AnsweredOnce'
  BY <1>1, <1>2 DEF OneAtATime, AnsweredOnce
<1> QED BY <1>4, <1>5, <1>6, <1>7, <1>8, <1>9, <1>10

\* Close preserves the invariant.
LEMMA CloseStep ==
  ASSUME Inv, NEW c \in Clients, Close(c)
  PROVE  Inv'
<1> USE JobFacts DEF Inv, JobsOf
<1>1. /\ \A d \in Clients : cl[d].at \in Resting
      /\ cl[c].at = "idle" /\ ~ses[c].active /\ job_lock = Nobody
      /\ Moves(c) /\ cl'[c].at \in {"join", "closed"} /\ job_sem' \in Nat
      /\ cl'[c].at = "join" => \A d \in Clients : d # c => cl[d].at = "closed"
      /\ job_queue' = job_queue \/ job_queue' = Append(job_queue, Exit)
  <2>1. cl[c].at = "idle" /\ ~ses[c].active /\ job_lock = Nobody /\ \A d \in Clients : cl[d].at \in Resting
    BY DEF Close, IntfFree
  <2>2. CASE Opened = {c}
    <3>1. cl' = To(c, "join") /\ job_queue' = Append(job_queue, Exit) /\ job_sem' = job_sem + 1
      BY <2>2 DEF Close
    <3> QED BY <2>1, <2>2, <3>1, ToFacts DEF Ats, TypeOK, Opened
  <2>3. CASE Opened # {c}
    <3>1. cl' = To(c, "closed") /\ job_queue' = job_queue /\ job_sem' = job_sem
      BY <2>3 DEF Close
    <3> QED BY <2>1, <3>1, ToFacts DEF Ats, TypeOK
  <2> QED BY <2>2, <2>3
<1>2. UNCHANGED <<ses, omx, job_lock, ongoing, mgr, outcome>>
  BY DEF Close
<1>3. /\ job_queue' \in Seq(Jobs \cup {Exit}) /\ Distinct(job_queue')
      /\ \A k \in Jobs : Queued(k)' => Queued(k)
  <2>1. CASE job_queue' = job_queue
    BY <2>1 DEF QueueInv, TypeOK, Queued
  <2>2. CASE job_queue' = Append(job_queue, Exit)
    BY <2>2, QueueAdd DEF QueueInv
  <2> QED BY <1>1, <2>1, <2>2
<1>4. TypeOK'
  BY <1>1, <1>2, <1>3 DEF TypeOK, Moves
<1>5. CallInv'
  BY <1>1, <1>2, <1>3 DEF CallInv, Moves, Resting
<1>6. QueueInv'
  BY <1>1, <1>2, <1>3 DEF QueueInv, TypeOK
<1>7. OngoingInv'
  BY <1>1, <1>2, <1>3 DEF OngoingInv, TypeOK
<1>8. WorkInv'
  <2>1. ASSUME NEW d \in Clients, d # c PROVE WorkOK(d)'
    BY <1>1, <1>2, <1>3, <2>1, WorkKept DEF Moves
  <2>2. WorkOK(c)'
    BY <1>1, <1>2, <1>3, WorkKept
  <2> QED BY <2>1, <2>2 DEF WorkInv
<1>9. WaitInv'
  <2>1. ASSUME NEW d \in Clients, d # c PROVE WaitOK(d)'
    BY <1>1, <1>2, <1>3, <2>1, WaitKept DEF Moves
  <2>2. WaitOK(c)'
    BY <1>1 DEF WaitOK
  <2> QED BY <2>1, <2>2 DEF WaitInv
<1>10. OneAtATime' /\ AnsweredOnce'
  BY <1>1, <1>2 DEF OneAtATime, AnsweredOnce
<1> QED BY <1>4, <1>5, <1>6, <1>7, <1>8, <1>9, <1>10

\* Joined preserves the invariant.
LEMMA JoinedStep ==
  ASSUME Inv, NEW c \in Clients, Joined(c)
  PROVE  Inv'
<1> USE JobFacts DEF Inv, JobsOf
<1>1. /\ cl[c].at = "join" /\ mgr.at = "gone"
      /\ Moves(c) /\ cl'[c].at = "closed" /\ job_queue' = <<>> /\ ongoing' = <<>> /\ job_sem' = 0
      /\ \A d \in Clients : omx[d].work = NoJob
  <2>1. cl[c].at = "join" /\ mgr.at = "gone" /\ cl' = To(c, "closed")
    BY DEF Joined
  <2>2. job_queue' = <<>> /\ ongoing' = <<>> /\ job_sem' = 0
    BY DEF Joined
  <2>3. Moves(c) /\ cl'[c].at = "closed"
    BY <2>1, ToFacts DEF Ats
  <2>4. \A d \in Clients : omx[d].work = NoJob
    BY <2>1 DEF CallInv, WorkInv, WorkOK
  <2> QED BY <2>1, <2>2, <2>3, <2>4
<1>2. UNCHANGED <<ses, omx, job_lock, mgr, outcome>>
  BY DEF Joined
<1>3. /\ job_queue' \in Seq(Jobs \cup {Exit}) /\ Distinct(job_queue')
      /\ \A k \in Jobs : ~Queued(k)'
  BY <1>1, EmptySeq DEF Distinct, Queued
<1>4. TypeOK'
  BY <1>1, <1>2, <1>3 DEF TypeOK, Moves
<1>5. CallInv'
  BY <1>1, <1>2, <1>3 DEF CallInv, Moves, Resting
<1>6. QueueInv'
  BY <1>1, <1>2, <1>3 DEF QueueInv, TypeOK
<1>7. OngoingInv'
  BY <1>1, <1>2, <1>3 DEF OngoingInv, TypeOK
<1>8. WorkInv'
  BY <1>1, <1>2 DEF WorkOK, WorkInv
<1>9. WaitInv'
  <2>1. ASSUME NEW d \in Clients, d # c PROVE WaitOK(d)'
    BY <1>1, <1>2, <1>3, <2>1, WaitKept DEF Moves
  <2>2. WaitOK(c)'
    BY <1>1 DEF WaitOK
  <2> QED BY <2>1, <2>2 DEF WaitInv
<1>10. OneAtATime' /\ AnsweredOnce'
  BY <1>1, <1>2 DEF OneAtATime, AnsweredOnce
<1> QED BY <1>4, <1>5, <1>6, <1>7, <1>8, <1>9, <1>10


-----------------------------------------------------------------------------
(* The job manager's thread.                                               *)

\* Wait preserves the invariant.
LEMMA WaitStep ==
  ASSUME Inv, Wait
  PROVE  Inv'
<1> USE JobFacts DEF Inv, JobsOf
<1>1. /\ mgr.at = "wait" /\ job_sem' \in Nat
      /\ mgr' = mgr \/ (mgr'.at = "lock" /\ mgr'.job = mgr.job /\ ongoing = <<>>)
      /\ mgr' \in [at : {"gone", "wait", "lock", "encode"}, job : Jobs \cup {NoJob}]
  <2>1. mgr.at = "wait" /\ job_sem' \in Nat
    BY DEF Wait, TypeOK
  <2>2. mgr \in [at : {"gone", "wait", "lock", "encode"}, job : Jobs \cup {NoJob}] /\ ongoing \in Seq(Jobs)
    BY DEF TypeOK
  <2>3. mgr' = IF Len(ongoing) >= MaxOngoing THEN mgr ELSE [mgr EXCEPT !.at = "lock"]
    BY DEF Wait
  <2>4. Len(ongoing) < 1 => ongoing = <<>>
    BY <2>2, EmptySeq, LenProperties
  <2> QED BY <2>1, <2>2, <2>3, <2>4, LenProperties DEF MaxOngoing
<1>2. UNCHANGED <<cl, ses, omx, job_lock, job_queue, ongoing, outcome>>
  BY DEF Wait
<1>3. Distinct(job_queue') /\ \A k \in Jobs : Queued(k)' => Queued(k)
  BY <1>2 DEF QueueInv, Queued
<1>4. TypeOK'
  BY <1>1, <1>2, <1>3 DEF TypeOK, Moves
<1>5. CallInv'
  BY <1>1, <1>2, <1>3 DEF CallInv, Moves, Resting
<1>6. QueueInv'
  BY <1>1, <1>2, <1>3 DEF QueueInv, TypeOK
<1>7. OngoingInv'
  BY <1>1, <1>2, <1>3 DEF OngoingInv, TypeOK
<1>8. WorkInv'
  <2>1. ASSUME NEW d \in Clients PROVE WorkOK(d)'
    BY <1>1, <1>2, <1>3, WorkKept DEF Moves
  <2> QED BY <2>1 DEF WorkInv
<1>9. WaitInv'
  <2>1. ASSUME NEW d \in Clients PROVE WaitOK(d)'
    BY <1>1, <1>2, <1>3, WaitKept DEF Moves
  <2> QED BY <2>1 DEF WaitInv
<1>10. OneAtATime' /\ AnsweredOnce'
  BY <1>1, <1>2 DEF OneAtATime, AnsweredOnce
<1> QED BY <1>4, <1>5, <1>6, <1>7, <1>8, <1>9, <1>10

\* TakeNothing preserves the invariant.
LEMMA TakeNothingStep ==
  ASSUME Inv, TakeNothing
  PROVE  Inv'
<1> USE JobFacts DEF Inv, JobsOf
<1>1. /\ mgr.at = "lock" /\ mgr'.at = "wait" /\ mgr'.job = mgr.job
      /\ mgr' \in [at : {"gone", "wait", "lock", "encode"}, job : Jobs \cup {NoJob}]
  BY DEF TakeNothing, TypeOK
<1>2. UNCHANGED <<cl, ses, omx, job_lock, job_queue, ongoing, job_sem, outcome>>
  BY DEF TakeNothing
<1>3. Distinct(job_queue') /\ \A k \in Jobs : Queued(k)' => Queued(k)
  BY <1>2 DEF QueueInv, Queued
<1>4. TypeOK'
  BY <1>1, <1>2, <1>3 DEF TypeOK, Moves
<1>5. CallInv'
  BY <1>1, <1>2, <1>3 DEF CallInv, Moves, Resting
<1>6. QueueInv'
  BY <1>1, <1>2, <1>3 DEF QueueInv, TypeOK
<1>7. OngoingInv'
  BY <1>1, <1>2, <1>3 DEF OngoingInv, TypeOK
<1>8. WorkInv'
  <2>1. ASSUME NEW d \in Clients PROVE WorkOK(d)'
    BY <1>1, <1>2, <1>3, WorkKept DEF Moves
  <2> QED BY <2>1 DEF WorkInv
<1>9. WaitInv'
  <2>1. ASSUME NEW d \in Clients PROVE WaitOK(d)'
    BY <1>1, <1>2, <1>3, WaitKept DEF Moves
  <2> QED BY <2>1 DEF WaitInv
<1>10. OneAtATime' /\ AnsweredOnce'
  BY <1>1, <1>2 DEF OneAtATime, AnsweredOnce
<1> QED BY <1>4, <1>5, <1>6, <1>7, <1>8, <1>9, <1>10

\* TakeExit preserves the invariant.
LEMMA TakeExitStep ==
  ASSUME Inv, TakeExit
  PROVE  Inv'
<1> USE JobFacts DEF Inv, JobsOf
<1>1. /\ mgr.at = "lock" /\ mgr'.at = "gone" /\ mgr'.job = mgr.job
      /\ mgr' \in [at : {"gone", "wait", "lock", "encode"}, job : Jobs \cup {NoJob}]
  BY DEF TakeExit, TypeOK
<1>2. UNCHANGED <<cl, ses, omx, job_lock, ongoing, job_sem, outcome>>
  BY DEF TakeExit
<1>3. /\ job_queue' \in Seq(Jobs \cup {Exit}) /\ Distinct(job_queue')
      /\ \A k \in Jobs : Queued(k)' => Queued(k)
  <2>1. job_queue # <<>> /\ job_queue' = Tail(job_queue)
    BY DEF TakeExit
  <2> QED BY <2>1, QueueTail DEF QueueInv
<1>4. TypeOK'
  BY <1>1, <1>2, <1>3 DEF TypeOK, Moves
<1>5. CallInv'
  BY <1>1, <1>2, <1>3 DEF CallInv, Moves, Resting
<1>6. QueueInv'
  BY <1>1, <1>2, <1>3 DEF QueueInv, TypeOK
<1>7. OngoingInv'
  BY <1>1, <1>2, <1>3 DEF OngoingInv, TypeOK
<1>8. WorkInv'
  <2>1. ASSUME NEW d \in Clients PROVE WorkOK(d)'
    BY <1>1, <1>2, <1>3, WorkKept DEF Moves
  <2> QED BY <2>1 DEF WorkInv
<1>9. WaitInv'
  <2>1. ASSUME NEW d \in Clients PROVE WaitOK(d)'
    BY <1>1, <1>2, <1>3, WaitKept DEF Moves
  <2> QED BY <2>1 DEF WaitInv
<1>10. OneAtATime' /\ AnsweredOnce'
  BY <1>1, <1>2 DEF OneAtATime, AnsweredOnce
<1> QED BY <1>4, <1>5, <1>6, <1>7, <1>8, <1>9, <1>10

\* TakeJob preserves the invariant.
LEMMA TakeJobStep ==
  ASSUME Inv, TakeJob
  PROVE  Inv'
<1> USE JobFacts DEF Inv, JobsOf
<1>1. /\ mgr.at = "lock" /\ job_lock = Nobody /\ job_lock' = "mgr" /\ ongoing = <<>>
      /\ mgr'.at = "encode" /\ mgr'.job \in Jobs /\ Queued(mgr'.job) /\ ongoing' = <<mgr'.job>>
      /\ mgr' \in [at : {"gone", "wait", "lock", "encode"}, job : Jobs \cup {NoJob}]
      /\ ses' \in [Clients -> Session] /\ \A d \in Clients : d # Client(mgr'.job) => ses'[d] = ses[d]
      /\ ses'[Client(mgr'.job)].jobId = mgr'.job /\ ~ses'[Client(mgr'.job)].abort_flag
      /\ \A d \in Clients : ses'[d].active = ses[d].active
      /\ \A d \in Clients : omx[d].work = NoJob
      /\ job_queue # <<>> /\ job_queue' = Tail(job_queue) /\ mgr'.job = Head(job_queue)
  <2>1. /\ mgr.at = "lock" /\ job_lock = Nobody /\ job_lock' = "mgr" /\ ongoing = <<>>
        /\ job_queue # <<>> /\ job_queue' = Tail(job_queue) /\ Head(job_queue) # Exit
    BY DEF TakeJob, OngoingInv
  <2>2. PICK j \in Jobs : j = Head(job_queue)
    BY <2>1, HeadTailProperties DEF TypeOK
  <2>3. PICK c \in Clients : c = Client(j)
    OBVIOUS
  <2>4. Queued(j)
    BY <2>1, <2>2, QueueTail DEF QueueInv
  <2>5. mgr' = [at |-> "encode", job |-> j] /\ ongoing' = Append(ongoing, j)
    BY <2>2 DEF TakeJob
  <2>6. /\ ses' \in [Clients -> Session] /\ \A d \in Clients : d # c => ses'[d] = ses[d]
        /\ ses'[c].jobId = j /\ ~ses'[c].abort_flag /\ ses'[c].active = ses[c].active
    <3>1. ses \in [Clients -> Session]
      BY DEF TypeOK
    <3>2. ses' = [ses EXCEPT ![c].jobId = j, ![c].abort_flag = FALSE, ![c].encoding = FALSE]
      BY <2>2, <2>3 DEF TakeJob
    <3> QED BY <3>1, <3>2 DEF Session
  <2>7. \A d \in Clients : omx[d].work = NoJob
    <3>1. \A w : ongoing # <<w>>
      BY <2>1
    <3>2. \A d \in Clients : cl[d].at # "cond"
      BY <2>1 DEF CallInv
    <3> QED BY <3>1, <3>2 DEF WorkInv, WorkOK
  <2>8. ongoing' = <<j>>
    BY <2>1, <2>5
  <2>9. mgr'.at = "encode" /\ mgr'.job = j
    BY <2>5
  <2>10. mgr' \in [at : {"gone", "wait", "lock", "encode"}, job : Jobs \cup {NoJob}]
    BY <2>5
  <2> QED BY <2>1, <2>2, <2>3, <2>4, <2>6, <2>7, <2>8, <2>9, <2>10
<1>2. UNCHANGED <<cl, omx, job_sem, outcome>>
  BY DEF TakeJob
<1>3. /\ job_queue' \in Seq(Jobs \cup {Exit}) /\ Distinct(job_queue')
      /\ \A k \in Jobs : Queued(k)' => Queued(k) /\ k # mgr'.job
  BY <1>1, QueueTail DEF QueueInv
<1>4. TypeOK'
  BY <1>1, <1>2, <1>3 DEF TypeOK, Moves
<1>5. CallInv'
  BY <1>1, <1>2, <1>3 DEF CallInv, Moves, Resting
<1>6. QueueInv'
  BY <1>1, <1>2, <1>3 DEF QueueInv, TypeOK
<1>7. OngoingInv'
  BY <1>1, <1>2, <1>3 DEF OngoingInv, QueueInv
<1>8. WorkInv'
  BY <1>1, <1>2 DEF WorkInv, WorkOK
<1>9. WaitInv'
  <2>1. \A d \in Clients : cl[d].at \notin {"cond", "woken"}
    BY <1>1 DEF CallInv
  <2> QED BY <1>2, <2>1 DEF WaitInv, WaitOK
<1>10. OneAtATime' /\ AnsweredOnce'
  BY <1>1, <1>2 DEF OneAtATime, AnsweredOnce
<1> QED BY <1>4, <1>5, <1>6, <1>7, <1>8, <1>9, <1>10

\* Encode preserves the invariant.
LEMMA EncodeStep ==
  ASSUME Inv, Encode
  PROVE  Inv'
<1> USE JobFacts DEF Inv, JobsOf
<1>1. /\ mgr.at = "encode" /\ mgr.job \in Jobs /\ job_lock = "mgr" /\ job_lock' = Nobody
      /\ mgr'.at = "wait" /\ mgr' \in [at : {"gone", "wait", "lock", "encode"}, job : Jobs \cup {NoJob}]
      /\ ses' \in [Clients -> Session] /\ \A d \in Clients : d # Client(mgr.job) => ses'[d] = ses[d]
      /\ ses'[Client(mgr.job)].jobId = mgr.job /\ ~ses'[Client(mgr.job)].abort_flag
      /\ ses'[Client(mgr.job)].encoding /\ ses'[Client(mgr.job)].active
      /\ \A d \in Clients : ses'[d].active = ses[d].active
      /\ omx' \in [Clients -> Component] /\ \A d \in Clients : d # Client(mgr.job) => omx'[d] = omx[d]
      /\ omx'[Client(mgr.job)].work = mgr.job
      /\ \A d \in Clients : omx[d].work = NoJob /\ omx[d].cb # "fbd"
      /\ ongoing = <<mgr.job>> /\ outcome[mgr.job] = "asked" /\ ~Queued(mgr.job)
  <2>1. /\ mgr.at = "encode" /\ mgr.job \in Jobs /\ job_lock = "mgr" /\ job_lock' = Nobody
        /\ mgr' = [at |-> "wait", job |-> NoJob]
    BY DEF Encode, OngoingInv, CallInv
  <2>2. PICK c \in Clients : c = Client(mgr.job)
    BY <2>1
  <2>3. /\ ses' \in [Clients -> Session] /\ \A d \in Clients : d # c => ses'[d] = ses[d]
        /\ ses'[c].jobId = ses[c].jobId /\ ses'[c].abort_flag = ses[c].abort_flag
        /\ ses'[c].active = ses[c].active /\ ses'[c].encoding
    <3>1. ses \in [Clients -> Session] /\ ses' = [ses EXCEPT ![c].encoding = TRUE]
      BY <2>2 DEF TypeOK, Encode
    <3> QED BY <3>1 DEF Session
  <2>4. /\ omx' \in [Clients -> Component] /\ \A d \in Clients : d # c => omx'[d] = omx[d]
        /\ omx'[c].work = mgr.job /\ omx'[c].cb = omx[c].cb
    <3>1. omx \in [Clients -> Component] /\ omx' = [omx EXCEPT ![c].work = mgr.job]
      BY <2>2 DEF TypeOK, Encode
    <3> QED BY <2>1, <3>1 DEF Component
  <2>5. \A d \in Clients : omx[d].work = NoJob /\ omx[d].cb # "fbd"
    BY <2>1 DEF OngoingInv, WorkInv, WorkOK
  <2>6. /\ ongoing = <<mgr.job>> /\ outcome[mgr.job] = "asked" /\ ~Queued(mgr.job)
        /\ ses[c].jobId = mgr.job /\ ~ses[c].abort_flag /\ ses[c].active
    BY <2>1, <2>2 DEF OngoingInv
  <2>7. mgr'.at = "wait" /\ mgr' \in [at : {"gone", "wait", "lock", "encode"}, job : Jobs \cup {NoJob}]
    BY <2>1
  <2> QED BY <2>1, <2>2, <2>3, <2>4, <2>5, <2>6, <2>7
<1>2. UNCHANGED <<cl, job_queue, ongoing, job_sem, outcome>>
  BY DEF Encode
<1>3. Distinct(job_queue') /\ \A k \in Jobs : Queued(k)' => Queued(k)
  BY <1>2 DEF QueueInv, Queued
<1>4. TypeOK'
  BY <1>1, <1>2, <1>3 DEF TypeOK, Moves
<1>5. CallInv'
  BY <1>1, <1>2, <1>3 DEF CallInv, Moves, Resting
<1>6. QueueInv'
  BY <1>1, <1>2, <1>3 DEF QueueInv, TypeOK
<1>7. OngoingInv'
  BY <1>1, <1>2, <1>3 DEF OngoingInv, TypeOK
<1>8. WorkInv'
  <2>1. PICK c \in Clients : c = Client(mgr.job)
    BY <1>1
  <2>2. ASSUME NEW d \in Clients, d # c PROVE WorkOK(d)'
    BY <1>1, <1>2, <1>3, <2>1, <2>2, WorkKept
  <2>3. WorkOK(c)'
    BY <1>1, <1>2, <1>3, <2>1 DEF WorkOK
  <2> QED BY <2>2, <2>3 DEF WorkInv
<1>9. WaitInv'
  <2>1. \A d \in Clients : cl[d].at \notin {"cond", "woken"}
    BY <1>1 DEF CallInv
  <2> QED BY <1>2, <2>1 DEF WaitInv, WaitOK
<1>10. OneAtATime' /\ AnsweredOnce'
  BY <1>1, <1>2 DEF OneAtATime, AnsweredOnce
<1> QED BY <1>4, <1>5, <1>6, <1>7, <1>8, <1>9, <1>10

\* EncodeFails preserves the invariant.
LEMMA EncodeFailsStep ==
  ASSUME Inv, EncodeFails
  PROVE  Inv'
<1> USE JobFacts DEF Inv, JobsOf
<1>1. /\ mgr.at = "encode" /\ mgr.job \in Jobs /\ job_lock = "mgr" /\ job_lock' = Nobody
      /\ mgr'.at = "wait" /\ mgr' \in [at : {"gone", "wait", "lock", "encode"}, job : Jobs \cup {NoJob}]
      /\ ses' \in [Clients -> Session] /\ \A d \in Clients : ses'[d].active = ses[d].active
      /\ \A d \in Clients : omx[d].work = NoJob
      /\ outcome' \in [Jobs -> Outcomes] /\ AnsweredOnce' /\ ~Queued(mgr.job)
      /\ \A k \in Jobs : k # mgr.job => outcome'[k] = outcome[k]
      /\ ongoing' \in Seq(Jobs) /\ Len(ongoing') <= 1 /\ job_sem' \in Nat
  <2>1. /\ mgr.at = "encode" /\ mgr.job \in Jobs /\ job_lock = "mgr" /\ job_lock' = Nobody
        /\ mgr' = [at |-> "wait", job |-> NoJob]
    BY DEF EncodeFails, OngoingInv, CallInv
  <2>2. PICK c \in Clients : c = Client(mgr.job)
    BY <2>1
  <2>3. ses' \in [Clients -> Session] /\ \A d \in Clients : ses'[d].active = ses[d].active
    <3>1. ses \in [Clients -> Session] /\ ses' = [ses EXCEPT ![c].encoding = FALSE]
      BY <2>2 DEF TypeOK, EncodeFails
    <3> QED BY <3>1 DEF Session
  <2>4. (\A d \in Clients : omx[d].work = NoJob) /\ outcome[mgr.job] = "asked" /\ ~Queued(mgr.job)
    BY <2>1 DEF OngoingInv
  <2>5. /\ outcome' \in [Jobs -> Outcomes] /\ AnsweredOnce'
        /\ \A k \in Jobs : k # mgr.job => outcome'[k] = outcome[k]
    <3>1. Answer(mgr.job)
      BY DEF EncodeFails
    <3> QED BY <2>1, <2>4, <3>1, AnswerFacts
  <2>6. ongoing' \in Seq(Jobs) /\ Len(ongoing') <= 1 /\ job_sem' \in Nat
    <3>1. ongoing' = Without(ongoing, {ses[c].jobId}) /\ job_sem' = job_sem + 1
      BY <2>2 DEF EncodeFails, JobDone
    <3> DEFINE S == {ses[c].jobId}
    <3> HIDE DEF S
    <3>2. ongoing' = Without(ongoing, S)
      BY <3>1 DEF S
    <3>3. ongoing' \in Seq(Jobs) /\ Len(ongoing') <= 1
      BY <3>2, OngoingCut DEF OngoingInv
    <3> QED BY <3>1, <3>3 DEF TypeOK
  <2>7. mgr'.at = "wait" /\ mgr' \in [at : {"gone", "wait", "lock", "encode"}, job : Jobs \cup {NoJob}]
    BY <2>1
  <2> QED BY <2>1, <2>3, <2>4, <2>5, <2>6, <2>7
<1>2. UNCHANGED <<cl, omx, job_queue>>
  BY DEF EncodeFails
<1>3. Distinct(job_queue') /\ \A k \in Jobs : Queued(k)' => Queued(k)
  BY <1>2 DEF QueueInv, Queued
<1>4. TypeOK'
  BY <1>1, <1>2, <1>3 DEF TypeOK, Moves
<1>5. CallInv'
  BY <1>1, <1>2, <1>3 DEF CallInv, Moves, Resting
<1>6. QueueInv'
  BY <1>1, <1>2, <1>3 DEF QueueInv, TypeOK
<1>7. OngoingInv'
  BY <1>1, <1>2, <1>3 DEF OngoingInv, TypeOK
<1>8. WorkInv'
  BY <1>1, <1>2 DEF WorkInv, WorkOK
<1>9. WaitInv'
  <2>1. \A d \in Clients : cl[d].at \notin {"cond", "woken"}
    BY <1>1 DEF CallInv
  <2> QED BY <1>2, <2>1 DEF WaitInv, WaitOK
<1>10. OneAtATime' /\ AnsweredOnce'
  BY <1>1, <1>2 DEF OneAtATime, AnsweredOnce
<1> QED BY <1>4, <1>5, <1>6, <1>7, <1>8, <1>9, <1>10


-----------------------------------------------------------------------------
(* The callback thread of a component.                                     *)

\* FbdAborted preserves the invariant.
LEMMA FbdAbortedStep ==
  ASSUME Inv, NEW c \in Clients, FbdAborted(c)
  PROVE  Inv'
<1> USE JobFacts DEF Inv, JobsOf
<1>1. /\ ses[c].abort_flag /\ omx[c].cb = "none"
      /\ Moves(c) /\ cl'[c].op = cl[c].op /\ cl'[c].job = cl[c].job
      /\ cl'[c].at = IF cl[c].at = "cond" THEN "woken" ELSE cl[c].at
      /\ omx' \in [Clients -> Component] /\ \A d \in Clients \ {c} : omx'[d] = omx[d]
      /\ omx'[c].work = NoJob /\ omx'[c].cb # "fbd"
  <2>1. omx[c].cb = "none" /\ ses[c].abort_flag /\ Signal(c)
    BY DEF FbdAborted
  <2>2. /\ omx' \in [Clients -> Component] /\ \A d \in Clients \ {c} : omx'[d] = omx[d]
        /\ omx'[c].work = NoJob /\ omx'[c].cb = omx[c].cb
    <3>1. omx \in [Clients -> Component] /\ omx' = [omx EXCEPT ![c].work = NoJob]
      BY DEF TypeOK, FbdAborted
    <3> QED BY <3>1 DEF Component
  <2> QED BY <2>1, <2>2, SignalFacts
<1>2. UNCHANGED <<ses, job_lock, job_queue, ongoing, job_sem, mgr, outcome>>
  BY DEF FbdAborted
<1>3. Distinct(job_queue') /\ \A k \in Jobs : Queued(k)' => Queued(k)
  BY <1>2 DEF QueueInv, Queued
<1>4. TypeOK'
  BY <1>1, <1>2, <1>3 DEF TypeOK, Moves
<1>5. CallInv'
  BY <1>1, <1>2, <1>3 DEF CallInv, Moves, Resting
<1>6. QueueInv'
  BY <1>1, <1>2, <1>3 DEF QueueInv, TypeOK
<1>7. OngoingInv'
  BY <1>1, <1>2, <1>3 DEF OngoingInv, TypeOK
<1>8. WorkInv'
  <2>1. ASSUME NEW d \in Clients, d # c PROVE WorkOK(d)'
    BY <1>1, <1>2, <1>3, <2>1, WorkKept DEF Moves
  <2>2. WorkOK(c)'
    BY <1>1 DEF WorkOK
  <2> QED BY <2>1, <2>2 DEF WorkInv
<1>9. WaitInv'
  <2>1. ASSUME NEW d \in Clients, d # c PROVE WaitOK(d)'
    BY <1>1, <1>2, <1>3, <2>1, WaitKept DEF Moves
  <2>2. WaitOK(c)'
    BY <1>1, <1>2, <1>3 DEF WaitOK, WaitInv, CallInv, TypeOK, Component
  <2> QED BY <2>1, <2>2 DEF WaitInv
<1>10. OneAtATime' /\ AnsweredOnce'
  BY <1>1, <1>2 DEF OneAtATime, AnsweredOnce
<1> QED BY <1>4, <1>5, <1>6, <1>7, <1>8, <1>9, <1>10

\* FbdUnaborted preserves the invariant.
LEMMA FbdUnabortedStep ==
  ASSUME Inv, NEW c \in Clients, FbdUnaborted(c)
  PROVE  Inv'
<1> USE JobFacts DEF Inv, JobsOf
<1>1. /\ ~ses[c].abort_flag /\ omx[c].work # NoJob
      /\ omx' \in [Clients -> Component] /\ \A d \in Clients \ {c} : omx'[d] = omx[d]
      /\ omx'[c].work = omx[c].work
  <2>1. ~ses[c].abort_flag /\ omx[c].work # NoJob
    BY DEF FbdUnaborted
  <2>2. /\ omx' \in [Clients -> Component] /\ \A d \in Clients \ {c} : omx'[d] = omx[d]
        /\ omx'[c].work = omx[c].work /\ omx'[c].cb = "fbd"
    <3>1. omx \in [Clients -> Component] /\ omx' = [omx EXCEPT ![c].cb = "fbd"]
      BY DEF TypeOK, FbdUnaborted
    <3> QED BY <3>1 DEF Component
  <2> QED BY <2>1, <2>2
<1>2. UNCHANGED <<cl, ses, job_lock, job_queue, ongoing, job_sem, mgr, outcome>>
  BY DEF FbdUnaborted
<1>3. Distinct(job_queue') /\ \A k \in Jobs : Queued(k)' => Queued(k)
  BY <1>2 DEF QueueInv, Queued
<1>4. TypeOK'
  BY <1>1, <1>2, <1>3 DEF TypeOK, Moves
<1>5. CallInv'
  BY <1>1, <1>2, <1>3 DEF CallInv, Moves, Resting
<1>6. QueueInv'
  BY <1>1, <1>2, <1>3 DEF QueueInv, TypeOK
<1>7. OngoingInv'
  BY <1>1, <1>2, <1>3 DEF OngoingInv, TypeOK
<1>8. WorkInv'
  <2>1. ASSUME NEW d \in Clients, d # c PROVE WorkOK(d)'
    BY <1>1, <1>2, <1>3, <2>1, WorkKept DEF Moves
  <2>2. WorkOK(c)'
    <3>1. WorkOK(c) /\ omx[c].work \in Jobs \cup {NoJob}
      BY DEF WorkInv, TypeOK, Component
    <3> QED BY <1>1, <1>2, <1>3, <3>1 DEF WorkOK
  <2> QED BY <2>1, <2>2 DEF WorkInv
<1>9. WaitInv'
  <2>1. ASSUME NEW d \in Clients PROVE WaitOK(d)'
    BY <1>1, <1>2, <1>3, WaitKept DEF Moves
  <2> QED BY <2>1 DEF WaitInv
<1>10. OneAtATime' /\ AnsweredOnce'
  BY <1>1, <1>2 DEF OneAtATime, AnsweredOnce
<1> QED BY <1>4, <1>5, <1>6, <1>7, <1>8, <1>9, <1>10

\* FbdDone preserves the invariant.
LEMMA FbdDoneStep ==
  ASSUME Inv, NEW c \in Clients, FbdDone(c)
  PROVE  Inv'
<1> USE JobFacts DEF Inv, JobsOf
<1>1. /\ omx' \in [Clients -> Component] /\ \A d \in Clients \ {c} : omx'[d] = omx[d]
      /\ omx'[c].work = NoJob /\ omx'[c].cb # "fbd"
      /\ ses' \in [Clients -> Session] /\ \A d \in Clients \ {c} : ses'[d] = ses[d]
      /\ ses'[c].abort_flag = ses[c].abort_flag /\ ses'[c].active = ses[c].active
      /\ outcome' \in [Jobs -> Outcomes] /\ AnsweredOnce'
      /\ \A k \in Jobs : Client(k) # c \/ outcome[k] # "asked" \/ Queued(k) => outcome'[k] = outcome[k]
      /\ mgr.at # "encode" /\ job_sem' \in Nat
      /\ ongoing' \in Seq(Jobs) /\ Len(ongoing') <= 1 /\ (ongoing = <<>> => ongoing' = <<>>)
      /\ \A k \in Jobs : ongoing = <<k>> /\ Client(k) # c => ongoing' = <<k>>
  <2>1. /\ omx[c].work \in Jobs /\ Client(omx[c].work) = c /\ ses[c].jobId = omx[c].work
        /\ outcome[omx[c].work] = "asked" /\ ~Queued(omx[c].work) /\ mgr.at # "encode"
    BY DEF FbdDone, WorkInv, WorkOK, OngoingInv, TypeOK, Component
  <2>2. /\ omx' \in [Clients -> Component] /\ \A d \in Clients \ {c} : omx'[d] = omx[d]
        /\ omx'[c].work = NoJob /\ omx'[c].cb = "none"
    <3>1. omx \in [Clients -> Component] /\ omx' = [omx EXCEPT ![c].cb = "none", ![c].work = NoJob]
      BY DEF TypeOK, FbdDone
    <3> QED BY <3>1 DEF Component
  <2>3. /\ ses' \in [Clients -> Session] /\ \A d \in Clients \ {c} : ses'[d] = ses[d]
        /\ ses'[c].abort_flag = ses[c].abort_flag /\ ses'[c].active = ses[c].active
    <3>1. ses \in [Clients -> Session] /\ ses' = [ses EXCEPT ![c].encoding = FALSE]
      BY DEF TypeOK, FbdDone
    <3> QED BY <3>1 DEF Session
  <2>4. /\ outcome' \in [Jobs -> Outcomes] /\ AnsweredOnce'
        /\ \A k \in Jobs : k # omx[c].work => outcome'[k] = outcome[k]
    <3>1. Answer(omx[c].work)
      BY <2>1 DEF FbdDone
    <3> QED BY <2>1, <3>1, AnswerFacts
  <2>5. /\ ongoing' \in Seq(Jobs) /\ Len(ongoing') <= 1 /\ (ongoing = <<>> => ongoing' = <<>>)
        /\ \A k \in Jobs : ongoing = <<k>> /\ Client(k) # c => ongoing' = <<k>>
    <3> DEFINE S == {ses[c].jobId}
    <3>1. \A k \in Jobs : Client(k) # c => k \notin S
      BY <2>1
    <3> HIDE DEF S
    <3>2. ongoing' = Without(ongoing, S)
      BY DEF FbdDone, JobDone, S
    <3> QED BY <3>1, <3>2, OngoingCut DEF OngoingInv
  <2>6. job_sem' \in Nat
    BY DEF FbdDone, JobDone, TypeOK
  <2>7. \A k \in Jobs : Client(k) # c \/ outcome[k] # "asked" \/ Queued(k) => outcome'[k] = outcome[k]
    BY <2>1, <2>4
  <2> QED BY <2>1, <2>2, <2>3, <2>4, <2>5, <2>6, <2>7
<1>2. UNCHANGED <<cl, job_lock, job_queue, mgr>>
  BY DEF FbdDone
<1>3. Distinct(job_queue') /\ \A k \in Jobs : Queued(k)' => Queued(k)
  BY <1>2 DEF QueueInv, Queued
<1>4. TypeOK'
  BY <1>1, <1>2, <1>3 DEF TypeOK, Moves
<1>5. CallInv'
  BY <1>1, <1>2, <1>3 DEF CallInv, Moves, Resting
<1>6. QueueInv'
  BY <1>1, <1>2, <1>3 DEF QueueInv, TypeOK
<1>7. OngoingInv'
  BY <1>1, <1>2, <1>3 DEF OngoingInv, TypeOK
<1>8. WorkInv'
  <2>1. ASSUME NEW d \in Clients, d # c PROVE WorkOK(d)'
    <3>1. WorkOK(d) /\ omx[d].work \in Jobs \cup {NoJob}
      BY DEF WorkInv, TypeOK, Component
    <3> QED BY <1>1, <1>2, <1>3, <2>1, <3>1 DEF WorkOK, Moves
  <2>2. WorkOK(c)'
    BY <1>1 DEF WorkOK
  <2> QED BY <2>1, <2>2 DEF WorkInv
<1>9. WaitInv'
  <2>1. ASSUME NEW d \in Clients PROVE WaitOK(d)'
    BY <1>1, <1>2, <1>3, WaitKept DEF Moves
  <2> QED BY <2>1 DEF WaitInv
<1>10. OneAtATime' /\ AnsweredOnce'
  BY <1>1, <1>2 DEF OneAtATime, AnsweredOnce
<1> QED BY <1>4, <1>5, <1>6, <1>7, <1>8, <1>9, <1>10

\* EventError preserves the invariant.
LEMMA EventErrorStep ==
  ASSUME Inv, NEW c \in Clients, EventError(c)
  PROVE  Inv'
<1> USE JobFacts DEF Inv, JobsOf
<1>1. /\ mgr.at # "encode"
      /\ Moves(c) /\ cl'[c].op = cl[c].op /\ cl'[c].job = cl[c].job
      /\ cl'[c].at = IF cl[c].at = "cond" THEN "woken" ELSE cl[c].at
      /\ omx' \in [Clients -> Component] /\ \A d \in Clients \ {c} : omx'[d] = omx[d]
      /\ omx'[c].work = NoJob /\ omx'[c].cb # "fbd"
      /\ ses' \in [Clients -> Session] /\ \A d \in Clients \ {c} : ses'[d] = ses[d]
      /\ ses'[c].abort_flag = ses[c].abort_flag /\ ses'[c].active = ses[c].active
      /\ outcome' \in [Jobs -> Outcomes] /\ AnsweredOnce'
      /\ \A k \in Jobs : Client(k) # c \/ outcome[k] # "asked" \/ Queued(k) => outcome'[k] = outcome[k]
      /\ job_sem' \in Nat
      /\ ongoing' \in Seq(Jobs) /\ Len(ongoing') <= 1 /\ (ongoing = <<>> => ongoing' = <<>>)
      /\ \A k \in Jobs : ongoing = <<k>> /\ Client(k) # c => ongoing' = <<k>>
  <2>1. /\ omx[c].work \in Jobs /\ Client(omx[c].work) = c /\ ses[c].jobId = omx[c].work
        /\ outcome[omx[c].work] = "asked" /\ ~Queued(omx[c].work) /\ mgr.at # "encode"
    BY DEF EventError, WorkInv, WorkOK, OngoingInv, TypeOK, Component
  <2>2. /\ omx' \in [Clients -> Component] /\ \A d \in Clients \ {c} : omx'[d] = omx[d]
        /\ omx'[c].work = NoJob /\ omx'[c].cb # "fbd"
    <3>1. omx \in [Clients -> Component] /\ omx' = [omx EXCEPT ![c].work = NoJob]
      BY DEF TypeOK, EventError
    <3>2. omx[c].cb = "none"
      BY DEF EventError
    <3> QED BY <3>1, <3>2 DEF Component
  <2>3. Signal(c)
    BY DEF EventError
  <2>4. CASE ses[c].encoding /\ ~ses[c].abort_flag
    <3>1. /\ ses' \in [Clients -> Session] /\ \A d \in Clients \ {c} : ses'[d] = ses[d]
          /\ ses'[c].abort_flag = ses[c].abort_flag /\ ses'[c].active = ses[c].active
      <4>1. ses \in [Clients -> Session] /\ ses' = [ses EXCEPT ![c].encoding = FALSE]
        BY <2>4 DEF TypeOK, EventError
      <4> QED BY <4>1 DEF Session
    <3>2. /\ outcome' \in [Jobs -> Outcomes] /\ AnsweredOnce'
          /\ \A k \in Jobs : k # omx[c].work => outcome'[k] = outcome[k]
      <4>1. Answer(omx[c].work)
        BY <2>1, <2>4 DEF EventError
      <4> QED BY <2>1, <4>1, AnswerFacts
    <3>3. /\ ongoing' \in Seq(Jobs) /\ Len(ongoing') <= 1 /\ (ongoing = <<>> => ongoing' = <<>>)
          /\ \A k \in Jobs : ongoing = <<k>> /\ Client(k) # c => ongoing' = <<k>>
      <4> DEFINE S == {ses[c].jobId}
      <4>1. \A k \in Jobs : Client(k) # c => k \notin S
        BY <2>1
      <4> HIDE DEF S
      <4>2. ongoing' = Without(ongoing, S)
        BY <2>4 DEF EventError, JobDone, S
      <4> QED BY <4>1, <4>2, OngoingCut DEF OngoingInv
    <3>4. job_sem' \in Nat
      BY <2>4 DEF EventError, JobDone, TypeOK
    <3>5. \A k \in Jobs : Client(k) # c \/ outcome[k] # "asked" \/ Queued(k) => outcome'[k] = outcome[k]
      BY <2>1, <3>2
    <3> QED BY <2>1, <2>2, <2>3, <3>1, <3>2, <3>3, <3>4, <3>5, SignalFacts
  <2>5. CASE ~(ses[c].encoding /\ ~ses[c].abort_flag)
    <3>1. UNCHANGED <<ses, outcome, ongoing, job_sem>>
      BY <2>5 DEF EventError
    <3>2. /\ ses \in [Clients -> Session] /\ outcome \in [Jobs -> Outcomes] /\ job_sem \in Nat
          /\ ongoing \in Seq(Jobs) /\ Len(ongoing) <= 1 /\ AnsweredOnce
      BY DEF TypeOK, OngoingInv
    <3>3. AnsweredOnce'
      BY <3>1, <3>2 DEF AnsweredOnce
    <3> QED BY <2>1, <2>2, <2>3, <3>1, <3>2, <3>3, SignalFacts
  <2> QED BY <2>4, <2>5
<1>2. UNCHANGED <<job_lock, job_queue, mgr>>
  BY DEF EventError
<1>3. Distinct(job_queue') /\ \A k \in Jobs : Queued(k)' => Queued(k)
  BY <1>2 DEF QueueInv, Queued
<1>4. TypeOK'
  BY <1>1, <1>2, <1>3 DEF TypeOK, Moves
<1>5. CallInv'
  BY <1>1, <1>2, <1>3 DEF CallInv, Moves, Resting
<1>6. QueueInv'
  BY <1>1, <1>2, <1>3 DEF QueueInv, TypeOK
<1>7. OngoingInv'
  BY <1>1, <1>2, <1>3 DEF OngoingInv, TypeOK
<1>8. WorkInv'
  <2>1. ASSUME NEW d \in Clients, d # c PROVE WorkOK(d)'
    <3>1. WorkOK(d) /\ omx[d].work \in Jobs \cup {NoJob}
      BY DEF WorkInv, TypeOK, Component
    <3> QED BY <1>1, <1>2, <1>3, <2>1, <3>1 DEF WorkOK, Moves
  <2>2. WorkOK(c)'
    BY <1>1 DEF WorkOK
  <2> QED BY <2>1, <2>2 DEF WorkInv
<1>9. WaitInv'
  <2>1. ASSUME NEW d \in Clients, d # c PROVE WaitOK(d)'
    BY <1>1, <1>2, <1>3, <2>1, WaitKept DEF Moves
  <2>2. WaitOK(c)'
    BY <1>1, <1>2, <1>3 DEF WaitOK, WaitInv, CallInv, TypeOK, Component
  <2> QED BY <2>1, <2>2 DEF WaitInv
<1>10. OneAtATime' /\ AnsweredOnce'
  BY <1>1, <1>2 DEF OneAtATime, AnsweredOnce
<1> QED BY <1>4, <1>5, <1>6, <1>7, <1>8, <1>9, <1>10

\* EventIdle preserves the invariant.
LEMMA EventIdleStep ==
  ASSUME Inv, NEW c \in Clients, EventIdle(c)
  PROVE  Inv'
<1> USE JobFacts DEF Inv, JobsOf
<1>1. /\ omx[c].work = NoJob
      /\ Moves(c) /\ cl'[c].op = cl[c].op /\ cl'[c].job = cl[c].job
      /\ cl'[c].at = IF cl[c].at = "cond" THEN "woken" ELSE cl[c].at
      /\ omx' \in [Clients -> Component] /\ \A d \in Clients \ {c} : omx'[d] = omx[d]
      /\ omx'[c].work = NoJob /\ omx'[c].cb = omx[c].cb
  <2>1. omx[c].work = NoJob /\ Signal(c)
    BY DEF EventIdle
  <2>2. /\ omx' \in [Clients -> Component] /\ \A d \in Clients \ {c} : omx'[d] = omx[d]
        /\ omx'[c].work = omx[c].work /\ omx'[c].cb = omx[c].cb
    <3>1. omx \in [Clients -> Component] /\ omx' = [omx EXCEPT ![c].idling = FALSE]
      BY DEF TypeOK, EventIdle
    <3> QED BY <3>1 DEF Component
  <2> QED BY <2>1, <2>2, SignalFacts
<1>2. UNCHANGED <<ses, job_lock, job_queue, ongoing, job_sem, mgr, outcome>>
  BY DEF EventIdle
<1>3. Distinct(job_queue') /\ \A k \in Jobs : Queued(k)' => Queued(k)
  BY <1>2 DEF QueueInv, Queued
<1>4. TypeOK'
  BY <1>1, <1>2, <1>3 DEF TypeOK, Moves
<1>5. CallInv'
  BY <1>1, <1>2, <1>3 DEF CallInv, Moves, Resting
<1>6. QueueInv'
  BY <1>1, <1>2, <1>3 DEF QueueInv, TypeOK
<1>7. OngoingInv'
  BY <1>1, <1>2, <1>3 DEF OngoingInv, TypeOK
<1>8. WorkInv'
  <2>1. ASSUME NEW d \in Clients, d # c PROVE WorkOK(d)'
    BY <1>1, <1>2, <1>3, <2>1, WorkKept DEF Moves
  <2>2. WorkOK(c)'
    BY <1>1, <1>2 DEF WorkOK, WorkInv
  <2> QED BY <2>1, <2>2 DEF WorkInv
<1>9. WaitInv'
  <2>1. ASSUME NEW d \in Clients, d # c PROVE WaitOK(d)'
    BY <1>1, <1>2, <1>3, <2>1, WaitKept DEF Moves
  <2>2. WaitOK(c)'
    BY <1>1, <1>2, <1>3 DEF WaitOK, WaitInv, CallInv, TypeOK, Component
  <2> QED BY <2>1, <2>2 DEF WaitInv
<1>10. OneAtATime' /\ AnsweredOnce'
  BY <1>1, <1>2 DEF OneAtATime, AnsweredOnce
<1> QED BY <1>4, <1>5, <1>6, <1>7, <1>8, <1>9, <1>10


-----------------------------------------------------------------------------
(* The invariant.                                                          *)

\* The invariant holds at first.
LEMMA InitInv == Init => Inv
<1> SUFFICES ASSUME Init PROVE Inv
  OBVIOUS
<1> USE JobFacts
<1>1. TypeOK
  <2>1. cl \in [Clients -> Thread] /\ ses \in [Clients -> Session] /\ omx \in [Clients -> Component]
    BY JpegAssumption DEF Init, Thread, Ats, Session, Component, FreshOmx
  <2>2. /\ job_lock \in Clients \cup {Nobody, "mgr"} /\ job_queue \in Seq(Jobs \cup {Exit})
        /\ ongoing \in Seq(Jobs) /\ job_sem \in Nat
    BY DEF Init
  <2>3. mgr \in [at : {"gone", "wait", "lock", "encode"}, job : Jobs \cup {NoJob}]
    BY DEF Init
  <2>4. outcome \in [Jobs -> Outcomes]
    BY DEF Init, Outcomes
  <2> QED BY <2>1, <2>2, <2>3, <2>4 DEF TypeOK
<1>2. \A c \in Clients : /\ cl[c].at = "closed" /\ ~ses[c].active
                         /\ omx[c].work = NoJob /\ omx[c].cb = "none"
  BY DEF Init, FreshOmx
<1>3. CallInv
  BY <1>2 DEF Init, CallInv, Resting
<1>4. QueueInv /\ OngoingInv
  BY DEF Init, QueueInv, Distinct, Queued, OngoingInv
<1>5. WorkInv /\ WaitInv /\ OneAtATime
  BY <1>2 DEF WorkInv, WorkOK, WaitInv, WaitOK, OneAtATime
<1>6. AnsweredOnce
  BY DEF Init, AnsweredOnce
<1> QED BY <1>1, <1>3, <1>4, <1>5, <1>6 DEF Inv

\* Nothing changes the invariant when nothing moves.
LEMMA QuietInv ==
  ASSUME Inv, UNCHANGED vars
  PROVE  Inv'
BY DEF Inv, vars, TypeOK, CallInv, QueueInv, Queued, OngoingInv, WorkInv, WorkOK, WaitInv, WaitOK,
       OneAtATime, AnsweredOnce, Distinct, JobsOf

\* Every step preserves the invariant.
LEMMA NextInv == Inv /\ [Next]_vars => Inv'
<1> SUFFICES ASSUME Inv, [Next]_vars PROVE Inv'
  OBVIOUS
<1>1. ASSUME NEW c \in Clients, Open(c) \/ CreateSession(c) \/ CallDestroy(c) \/ Close(c) PROVE Inv'
  BY <1>1, OpenStep, CreateSessionStep, CallDestroyStep, CloseStep
<1>2. ASSUME NEW c \in Clients, Returns(c) PROVE Inv'
  BY <1>2, AbortJobStep, DestroySessionStep, AbortReturnsStep, DestroyReturnsStep, JoinedStep
     DEF Returns
<1>3. ASSUME NEW c \in Clients, Omx(c) PROVE Inv'
  BY <1>3, FbdAbortedStep, FbdUnabortedStep, FbdDoneStep, EventErrorStep, EventIdleStep DEF Omx
<1>4. ASSUME NEW j \in Jobs, StartJob(j) \/ CallAbort(j) PROVE Inv'
  BY <1>4, StartJobStep, CallAbortStep
<1>5. CASE Mgr
  BY <1>5, WaitStep, TakeNothingStep, TakeExitStep, TakeJobStep, EncodeStep, EncodeFailsStep DEF Mgr
<1>6. CASE Terminated \/ UNCHANGED vars
  BY <1>6, QuietInv DEF Terminated
<1> QED BY <1>1, <1>2, <1>3, <1>4, <1>5, <1>6 DEF Next

\* Inv is an invariant of the job manager.
THEOREM Invariance == Spec => []Inv
<1> QED BY InitInv, NextInv, PTL DEF Spec

\* The variables of the job manager have their types.
THEOREM TypeCorrect == Spec => []TypeOK
<1>1. Inv => TypeOK
  BY DEF Inv
<1> QED BY <1>1, Invariance, PTL

\* A client is answered once for each job, and not any more when its abort or the destroy of
\* its session has returned: whatever the number of clients, jobs and sessions, and whatever
\* fails.
THEOREM AnsweredOnceAlways == Spec => []AnsweredOnce
<1>1. Inv => AnsweredOnce
  BY DEF Inv
<1> QED BY <1>1, Invariance, PTL

\* The components of two sessions never work at the same time: the one slot of the ongoing
\* queue is held until the component is done, or waited for with the lock held.
THEOREM OneAtATimeAlways == Spec => []OneAtATime
<1>1. Inv => OneAtATime
  BY DEF Inv
<1> QED BY <1>1, Invariance, PTL
=============================================================================
