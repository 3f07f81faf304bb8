--------------------------- MODULE PageLists_proofs ---------------------------
(***************************************************************************)
(* Proofs that a request of a data source is answered once at most, not at *)
(* all when it was cancelled in time, and that no page read from the cache *)
(* comes after a newer answer: for any data sources, gestures, slots and   *)
(* bounds.  For a list whose requests never crossed also that it is the    *)
(* pages in order and begins, at rest, with the newest first page it was   *)
(* given; and for a cached address that it holds a first page, as long as  *)
(* none of its readers' requests crossed.                                  *)
(***************************************************************************)
EXTENDS PageLists, SequenceTheorems, TLAPS

-----------------------------------------------------------------------------
(* The invariant.  m is the main queue, l the timers, j the serial queue,  *)
(* q the requests, h what was heard.                                       *)

Ending == {"loaded", "failed", "timeout"}

TypeInv == PagesTypeOK /\ \A s \in Sources : ds[s].subject <= MaxSubject

\* An answer is on its way.
Due(e) == e.at = "done" /\ e.told = 0 /\ ~e.void

Sound(e) ==
    /\ e.told \in {0, 1}
    /\ e.item => e.told = 0 /\ e.at # "done" /\ ~e.void
    /\ e.void => e.told = 0
    /\ e.at # "done" => e.told = 0

\* What a block, a timer or a job is about.
BlockOK(b, q) ==
    /\ b.req \in DOMAIN q
    /\ b.kind = "start" => q[b.req].at = "posted"
    /\ b.kind \in Ending => q[b.req].at = "ending"
    /\ b.kind = "answer" => Due(q[b.req])

TimerOK(t, q) ==
    /\ t.req \in DOMAIN q
    /\ t.kind = "fail" => q[t.req].at = "ending"
    /\ t.kind = "answer" => Due(q[t.req])

JobOK(b, q) ==
    /\ b.req \in DOMAIN q
    /\ b.kind = "tell" => Due(q[b.req])

Carried(m, l, j, q) ==
    /\ \A i \in DOMAIN m : BlockOK(m[i], q)
    /\ \A i \in DOMAIN l : TimerOK(l[i], q)
    /\ \A i \in DOMAIN j : JobOK(j[i], q)

\* Nothing on a queue carries request r.
Idle(r, m, l, j) ==
    /\ \A i \in DOMAIN m : m[i].kind # "cached" => m[i].req # r
    /\ \A i \in DOMAIN l : l[i].req # r
    /\ \A i \in DOMAIN j : j[i].kind = "tell" => j[i].req # r

\* A request is carried by one thing at most.
Sole(m, l, j) ==
    /\ \A i, k \in DOMAIN m :
          m[i].kind # "cached" /\ m[k].kind # "cached" /\ m[i].req = m[k].req => i = k
    /\ \A i, k \in DOMAIN l : l[i].req = l[k].req => i = k
    /\ \A i, k \in DOMAIN j :
          j[i].kind = "tell" /\ j[k].kind = "tell" /\ j[i].req = j[k].req => i = k
    /\ \A i \in DOMAIN m : \A k \in DOMAIN l : m[i].kind # "cached" => m[i].req # l[k].req
    /\ \A i \in DOMAIN m : \A k \in DOMAIN j :
          m[i].kind # "cached" /\ j[k].kind = "tell" => m[i].req # j[k].req
    /\ \A i \in DOMAIN l : \A k \in DOMAIN j : j[k].kind = "tell" => l[i].req # j[k].req

\* A read of the cache is newer than every answer on its way in front of it and
\* than every one that was heard.
Ordered(m, j, h, q) ==
    /\ \A s \in Sources : h[s] <= Len(q)
    /\ \A i \in DOMAIN m : m[i].kind = "cached" => m[i].req > h[q[m[i].req].src]
    /\ \A i \in DOMAIN j : j[i].kind = "read" => j[i].req > h[q[j[i].req].src]
    /\ \A i, k \in DOMAIN m :
          i < k /\ m[i].kind = "answer" /\ m[k].kind = "cached" => m[i].req < m[k].req
    /\ \A i, k \in DOMAIN j :
          i < k /\ j[i].kind = "tell" /\ j[k].kind = "read" => j[i].req < j[k].req
    /\ \A i \in DOMAIN m : \A k \in DOMAIN j :
          m[i].kind = "answer" /\ j[k].kind = "read" => m[i].req < j[k].req

Good ==
    /\ \A r \in DOMAIN reqs : Sound(reqs[r])
    /\ Carried(main, later, jobs, reqs)
    /\ Sole(main, later, jobs)
    /\ Ordered(main, jobs, heard, reqs)

IInv == TypeInv /\ Good

-----------------------------------------------------------------------------
(* Types.                                                                  *)

LEMMA BodyType ==
    /\ NoBody \in [key : {NoKey}, page : {-1}, ver : {0}]
    /\ Junk \in Body
    /\ \A b \in Body \cup {NoBody} : Items(b) \in Seq(Body)
<1>1. NoBody.page = -1 /\ NoBody \in [key : {NoKey}, page : {-1}, ver : {0}]
  BY DEF NoBody
<1>2. ASSUME NEW b \in Body \cup {NoBody}
      PROVE  Items(b) \in Seq(Body)
  <2>1. CASE b = NoBody
    BY <1>1, <2>1, PageAssumption DEF Items
  <2>2. CASE b \in Body
    BY <2>2 DEF Items
  <2> QED BY <2>1, <2>2
<1>3. Junk \in Body
  BY DEF Body
<1> QED BY <1>1, <1>2, <1>3

LEMMA KeyType ==
    ASSUME NEW s \in Sources, NEW i \in Nat \ {0}, i <= MaxSubject
    PROVE  Key(s, i) \in Keys
<1>1. i \in 1..MaxSubject
  BY PageAssumption
<1> QED BY <1>1 DEF Keys

LEMMA LoadedType ==
    ASSUME NEW d \in SourceT, NEW list \in Seq(Body), NEW b \in Body \cup {NoBody}
    PROVE  Loaded(d, list, b) \in SourceT /\ Loaded(d, list, b).subject = d.subject
<1>1. Items(b) \in Seq(Body)
  BY BodyType
<1> DEFINE it == list \o Items(b)
           hm == Items(b) # <<>>
<1>2. it \in Seq(Body) /\ hm \in BOOLEAN
  BY <1>1
<1>3. Loaded(d, list, b) = [d EXCEPT !.list = it, !.hasMore = hm, !.dataChanged = FALSE]
  BY DEF Loaded
<1> HIDE DEF it, hm
<1> QED BY <1>2, <1>3 DEF SourceT

LEMMA Typed ==
    ASSUME TypeInv
    PROVE  /\ ds \in [Sources -> SourceT] /\ wants \in [Sources -> Nat]
           /\ reqs \in Seq(RequestT)
           /\ main \in Seq(BlockT) /\ later \in Seq(TimerT) /\ jobs \in Seq(JobT)
           /\ cache \in [Keys -> Body \cup {NoBody}] /\ version \in Nat \ {0}
           /\ heard \in [Sources -> Nat] /\ last \in [Sources -> Body \cup {NoBody}]
           /\ \A s \in Sources : ds[s].subject \in Nat \ {0} /\ ds[s].subject <= MaxSubject
           /\ \A r \in DOMAIN reqs : reqs[r] \in RequestT /\ r \in Nat \ {0}
           /\ DOMAIN reqs = 1..Len(reqs) /\ Len(reqs) \in Nat
<1>1. ds \in [Sources -> SourceT] /\ reqs \in Seq(RequestT)
  BY DEF TypeInv, PagesTypeOK
<1>2. \A s \in Sources : ds[s].subject \in Nat \ {0} /\ ds[s].subject <= MaxSubject
  BY <1>1 DEF TypeInv, SourceT
<1>3. /\ \A r \in DOMAIN reqs : reqs[r] \in RequestT /\ r \in Nat \ {0}
      /\ DOMAIN reqs = 1..Len(reqs) /\ Len(reqs) \in Nat
  BY <1>1
<1> QED BY <1>1, <1>2, <1>3 DEF TypeInv, PagesTypeOK

\* The type invariant, from the pieces an action changes.
LEMMA TypedAgain ==
    ASSUME ds' \in [Sources -> SourceT], wants' \in [Sources -> Nat],
           reqs' \in Seq(RequestT),
           main' \in Seq(BlockT), later' \in Seq(TimerT), jobs' \in Seq(JobT),
           cache' \in [Keys -> Body \cup {NoBody}], version' \in Nat \ {0},
           heard' \in [Sources -> Nat], last' \in [Sources -> Body \cup {NoBody}],
           \A s \in Sources : ds'[s].subject <= MaxSubject
    PROVE  TypeInv'
BY DEF TypeInv, PagesTypeOK

\* Whatever a request, a list or the next block is, replaced it stays one.
LEMMA ReqType ==
    ASSUME TypeInv, NEW r \in DOMAIN reqs, NEW e \in RequestT
    PROVE  LET q == [reqs EXCEPT ![r] = e]
           IN  /\ q \in Seq(RequestT) /\ DOMAIN q = DOMAIN reqs /\ Len(q) = Len(reqs)
               /\ q[r] = e /\ \A x \in DOMAIN reqs : x # r => q[x] = reqs[x]
BY Typed

LEMMA SourceType ==
    ASSUME TypeInv, NEW s \in Sources, NEW d \in SourceT, d.subject <= MaxSubject
    PROVE  LET f == [ds EXCEPT ![s] = d]
           IN  f \in [Sources -> SourceT] /\ \A x \in Sources : f[x].subject <= MaxSubject
BY Typed

LEMMA TailFacts ==
    ASSUME NEW S, NEW m \in Seq(S), m # <<>>
    PROVE  /\ Tail(m) \in Seq(S) /\ Head(m) \in S /\ m[1] = Head(m) /\ 1 \in DOMAIN m
           /\ \A i \in DOMAIN Tail(m) : i + 1 \in DOMAIN m /\ Tail(m)[i] = m[i + 1] /\ i + 1 > 1
           /\ \A i, k \in DOMAIN Tail(m) : i < k => i + 1 < k + 1
           /\ \A i, k \in DOMAIN Tail(m) : i + 1 = k + 1 => i = k
OBVIOUS

LEMMA AppendFacts ==
    ASSUME NEW S, NEW m \in Seq(S), NEW b \in S
    PROVE  LET a == Append(m, b)
           IN  /\ a \in Seq(S) /\ a[Len(m) + 1] = b
               /\ \A i \in DOMAIN m : i \in DOMAIN a /\ a[i] = m[i] /\ i < Len(m) + 1
               /\ \A i \in DOMAIN a : i \in DOMAIN m \/ i = Len(m) + 1
OBVIOUS

-----------------------------------------------------------------------------
(* The queues, one step at a time.                                         *)

Queues(m, l, j, h, q) ==
    /\ m \in Seq(BlockT) /\ l \in Seq(TimerT) /\ j \in Seq(JobT)
    /\ h \in [Sources -> Nat] /\ q \in Seq(RequestT)
    /\ Carried(m, l, j, q) /\ Sole(m, l, j) /\ Ordered(m, j, h, q)

LEMMA MainTail ==
    ASSUME NEW m, NEW l, NEW j, NEW h, NEW q, Queues(m, l, j, h, q), m # <<>>
    PROVE  /\ Queues(Tail(m), l, j, h, q)
           /\ Head(m) \in BlockT /\ BlockOK(Head(m), q)
           /\ Head(m).kind # "cached" => Idle(Head(m).req, Tail(m), l, j)
           /\ Head(m).kind = "answer" =>
                 /\ \A i \in DOMAIN Tail(m) :
                       Tail(m)[i].kind = "cached" => Head(m).req < Tail(m)[i].req
                 /\ \A i \in DOMAIN j : j[i].kind = "read" => Head(m).req < j[i].req
<1> DEFINE t == Tail(m)
           b == Head(m)
<1>1. m \in Seq(BlockT) /\ Carried(m, l, j, q) /\ Sole(m, l, j) /\ Ordered(m, j, h, q)
  BY DEF Queues
<1>2. /\ t \in Seq(BlockT) /\ b \in BlockT /\ m[1] = b /\ 1 \in DOMAIN m
      /\ \A i \in DOMAIN t : i + 1 \in DOMAIN m /\ t[i] = m[i + 1] /\ i + 1 > 1
      /\ \A i, k \in DOMAIN t : i < k => i + 1 < k + 1
      /\ \A i, k \in DOMAIN t : i + 1 = k + 1 => i = k
  BY <1>1, TailFacts
<1> HIDE DEF t, b
<1>3. Carried(t, l, j, q)
  BY <1>1, <1>2 DEF Carried
<1>4. BlockOK(b, q)
  BY <1>1, <1>2 DEF Carried
<1>5. Sole(t, l, j)
  BY <1>1, <1>2 DEF Sole
<1>6. Ordered(t, j, h, q)
  BY <1>1, <1>2 DEF Ordered
<1>7. ASSUME b.kind # "cached"
      PROVE  Idle(b.req, t, l, j)
  <2>1. \A i \in DOMAIN t : i + 1 # 1
    BY <1>2
  <2>2. \A i \in DOMAIN t : t[i].kind # "cached" => t[i].req # b.req
    BY <1>1, <1>2, <1>7, <2>1 DEF Sole
  <2>3. \A i \in DOMAIN l : l[i].req # b.req
    BY <1>1, <1>2, <1>7 DEF Sole
  <2>4. \A i \in DOMAIN j : j[i].kind = "tell" => j[i].req # b.req
    BY <1>1, <1>2, <1>7 DEF Sole
  <2> QED BY <2>2, <2>3, <2>4 DEF Idle
<1>8. ASSUME b.kind = "answer"
      PROVE  /\ \A i \in DOMAIN t : t[i].kind = "cached" => b.req < t[i].req
             /\ \A i \in DOMAIN j : j[i].kind = "read" => b.req < j[i].req
  <2>1. \A i \in DOMAIN t : 1 < i + 1
    BY <1>2
  <2>2. \A i \in DOMAIN t : t[i].kind = "cached" => b.req < t[i].req
    BY <1>1, <1>2, <1>8, <2>1 DEF Ordered
  <2>3. \A i \in DOMAIN j : j[i].kind = "read" => b.req < j[i].req
    BY <1>1, <1>2, <1>8 DEF Ordered
  <2> QED BY <2>2, <2>3
<1>9. Queues(t, l, j, h, q)
  BY <1>2, <1>3, <1>5, <1>6 DEF Queues
<1> QED BY <1>2, <1>4, <1>7, <1>8, <1>9 DEF t, b

LEMMA LaterTail ==
    ASSUME NEW m, NEW l, NEW j, NEW h, NEW q, Queues(m, l, j, h, q), l # <<>>
    PROVE  /\ Queues(m, Tail(l), j, h, q)
           /\ Head(l) \in TimerT /\ TimerOK(Head(l), q)
           /\ Idle(Head(l).req, m, Tail(l), j)
<1> DEFINE t == Tail(l)
           b == Head(l)
<1>1. l \in Seq(TimerT) /\ Carried(m, l, j, q) /\ Sole(m, l, j) /\ Ordered(m, j, h, q)
  BY DEF Queues
<1>2. /\ t \in Seq(TimerT) /\ b \in TimerT /\ l[1] = b /\ 1 \in DOMAIN l
      /\ \A i \in DOMAIN t : i + 1 \in DOMAIN l /\ t[i] = l[i + 1] /\ i + 1 > 1
      /\ \A i, k \in DOMAIN t : i + 1 = k + 1 => i = k
  BY <1>1, TailFacts
<1> HIDE DEF t, b
<1>3. Carried(m, t, j, q) /\ TimerOK(b, q)
  BY <1>1, <1>2 DEF Carried
<1>4. Sole(m, t, j)
  BY <1>1, <1>2 DEF Sole
<1>5. Idle(b.req, m, t, j)
  <2>1. \A i \in DOMAIN t : i + 1 # 1
    BY <1>2
  <2> QED BY <1>1, <1>2, <2>1 DEF Sole, Idle
<1>6. Queues(m, t, j, h, q)
  BY <1>2, <1>3, <1>4 DEF Queues
<1> QED BY <1>2, <1>3, <1>5, <1>6 DEF t, b

LEMMA JobsTail ==
    ASSUME NEW m, NEW l, NEW j, NEW h, NEW q, Queues(m, l, j, h, q), j # <<>>
    PROVE  /\ Queues(m, l, Tail(j), h, q)
           /\ Head(j) \in JobT /\ JobOK(Head(j), q)
           /\ Head(j).kind = "tell" =>
                 /\ Idle(Head(j).req, m, l, Tail(j))
                 /\ \A i \in DOMAIN Tail(j) :
                       Tail(j)[i].kind = "read" => Head(j).req < Tail(j)[i].req
           /\ Head(j).kind = "read" =>
                 /\ Head(j).req > h[q[Head(j).req].src]
                 /\ \A i \in DOMAIN m : m[i].kind = "answer" => m[i].req < Head(j).req
<1> DEFINE t == Tail(j)
           b == Head(j)
<1>1. j \in Seq(JobT) /\ Carried(m, l, j, q) /\ Sole(m, l, j) /\ Ordered(m, j, h, q)
  BY DEF Queues
<1>2. /\ t \in Seq(JobT) /\ b \in JobT /\ j[1] = b /\ 1 \in DOMAIN j
      /\ \A i \in DOMAIN t : i + 1 \in DOMAIN j /\ t[i] = j[i + 1] /\ i + 1 > 1
      /\ \A i, k \in DOMAIN t : i < k => i + 1 < k + 1
      /\ \A i, k \in DOMAIN t : i + 1 = k + 1 => i = k
  BY <1>1, TailFacts
<1> HIDE DEF t, b
<1>3. Carried(m, l, t, q) /\ JobOK(b, q)
  BY <1>1, <1>2 DEF Carried
<1>4. Sole(m, l, t)
  BY <1>1, <1>2 DEF Sole
<1>5. Ordered(m, t, h, q)
  BY <1>1, <1>2 DEF Ordered
<1>6. ASSUME b.kind = "tell"
      PROVE  /\ Idle(b.req, m, l, t)
             /\ \A i \in DOMAIN t : t[i].kind = "read" => b.req < t[i].req
  <2>1. \A i \in DOMAIN t : i + 1 # 1 /\ 1 < i + 1
    BY <1>2
  <2>2. \A i \in DOMAIN t : t[i].kind = "tell" => t[i].req # b.req
    BY <1>1, <1>2, <1>6, <2>1 DEF Sole
  <2>3. \A i \in DOMAIN m : m[i].kind # "cached" => m[i].req # b.req
    BY <1>1, <1>2, <1>6 DEF Sole
  <2>4. \A i \in DOMAIN l : l[i].req # b.req
    BY <1>1, <1>2, <1>6 DEF Sole
  <2>5. \A i \in DOMAIN t : t[i].kind = "read" => b.req < t[i].req
    BY <1>1, <1>2, <1>6, <2>1 DEF Ordered
  <2> QED BY <2>2, <2>3, <2>4, <2>5 DEF Idle
<1>7. ASSUME b.kind = "read"
      PROVE  /\ b.req > h[q[b.req].src]
             /\ \A i \in DOMAIN m : m[i].kind = "answer" => m[i].req < b.req
  BY <1>1, <1>2, <1>7 DEF Ordered
<1>8. Queues(m, l, t, h, q)
  BY <1>2, <1>3, <1>4, <1>5 DEF Queues
<1> QED BY <1>2, <1>3, <1>6, <1>7, <1>8 DEF t, b

\* A block, a timer or a job is added for a request that nothing else carries.
LEMMA MainAppend ==
    ASSUME NEW m, NEW l, NEW j, NEW h, NEW q, Queues(m, l, j, h, q),
           NEW b \in BlockT, BlockOK(b, q),
           b.kind # "cached" => Idle(b.req, m, l, j),
           b.kind = "cached" => b.req > h[q[b.req].src],
           b.kind = "cached" => \A i \in DOMAIN m : m[i].kind = "answer" => m[i].req < b.req,
           b.kind = "answer" => \A i \in DOMAIN j : j[i].kind = "read" => b.req < j[i].req
    PROVE  Queues(Append(m, b), l, j, h, q)
<1> DEFINE a == Append(m, b)
           n == Len(m) + 1
<1>1. m \in Seq(BlockT) /\ Carried(m, l, j, q) /\ Sole(m, l, j) /\ Ordered(m, j, h, q)
  BY DEF Queues
<1>2. /\ a \in Seq(BlockT) /\ a[n] = b
      /\ \A i \in DOMAIN m : i \in DOMAIN a /\ a[i] = m[i] /\ i < n
      /\ \A i \in DOMAIN a : i \in DOMAIN m \/ i = n
  BY <1>1, AppendFacts
<1>3. n \in Nat /\ \A i \in DOMAIN m : i \in Nat
  BY <1>1
<1> HIDE DEF a, n
<1>4. Carried(a, l, j, q)
  BY <1>1, <1>2 DEF Carried
<1>5. Sole(a, l, j)
  <2>1. \A i, k \in DOMAIN a :
           a[i].kind # "cached" /\ a[k].kind # "cached" /\ a[i].req = a[k].req => i = k
    BY <1>1, <1>2 DEF Sole, Idle
  <2>2. \A i \in DOMAIN a : \A k \in DOMAIN l : a[i].kind # "cached" => a[i].req # l[k].req
    BY <1>1, <1>2 DEF Sole, Idle
  <2>3. \A i \in DOMAIN a : \A k \in DOMAIN j :
           a[i].kind # "cached" /\ j[k].kind = "tell" => a[i].req # j[k].req
    BY <1>1, <1>2 DEF Sole, Idle
  <2> QED BY <1>1, <2>1, <2>2, <2>3 DEF Sole
<1>6. Ordered(a, j, h, q)
  <2>1. \A i \in DOMAIN a : a[i].kind = "cached" => a[i].req > h[q[a[i].req].src]
    BY <1>1, <1>2 DEF Ordered
  <2>2. \A i, k \in DOMAIN a :
           i < k /\ a[i].kind = "answer" /\ a[k].kind = "cached" => a[i].req < a[k].req
    <3>1. \A k \in DOMAIN m : ~(n < k)
      BY <1>2, <1>3
    <3>2. ~(n < n)
      BY <1>3
    <3> QED BY <1>1, <1>2, <3>1, <3>2 DEF Ordered
  <2>3. \A i \in DOMAIN a : \A k \in DOMAIN j :
           a[i].kind = "answer" /\ j[k].kind = "read" => a[i].req < j[k].req
    BY <1>1, <1>2 DEF Ordered
  <2> QED BY <1>1, <2>1, <2>2, <2>3 DEF Ordered
<1>7. Queues(a, l, j, h, q)
  BY <1>2, <1>4, <1>5, <1>6 DEF Queues
<1> QED BY <1>7 DEF a

LEMMA LaterAppend ==
    ASSUME NEW m, NEW l, NEW j, NEW h, NEW q, Queues(m, l, j, h, q),
           NEW b \in TimerT, TimerOK(b, q), Idle(b.req, m, l, j)
    PROVE  Queues(m, Append(l, b), j, h, q)
<1> DEFINE a == Append(l, b)
           n == Len(l) + 1
<1>1. l \in Seq(TimerT) /\ Carried(m, l, j, q) /\ Sole(m, l, j) /\ Ordered(m, j, h, q)
  BY DEF Queues
<1>2. /\ a \in Seq(TimerT) /\ a[n] = b
      /\ \A i \in DOMAIN l : i \in DOMAIN a /\ a[i] = l[i] /\ i < n
      /\ \A i \in DOMAIN a : i \in DOMAIN l \/ i = n
  BY <1>1, AppendFacts
<1> HIDE DEF a, n
<1>3. Carried(m, a, j, q)
  BY <1>1, <1>2 DEF Carried
<1>4. Sole(m, a, j)
  BY <1>1, <1>2 DEF Sole, Idle
<1>5. Queues(m, a, j, h, q)
  BY <1>2, <1>3, <1>4 DEF Queues
<1> QED BY <1>5 DEF a

LEMMA JobsAppend ==
    ASSUME NEW m, NEW l, NEW j, NEW h, NEW q, Queues(m, l, j, h, q),
           NEW b \in JobT, JobOK(b, q),
           b.kind = "tell" => Idle(b.req, m, l, j),
           b.kind = "read" => /\ b.req > h[q[b.req].src]
                              /\ \A i \in DOMAIN m : m[i].kind = "answer" => m[i].req < b.req
                              /\ \A i \in DOMAIN j : j[i].kind = "tell" => j[i].req < b.req
    PROVE  Queues(m, l, Append(j, b), h, q)
<1> DEFINE a == Append(j, b)
           n == Len(j) + 1
<1>1. j \in Seq(JobT) /\ Carried(m, l, j, q) /\ Sole(m, l, j) /\ Ordered(m, j, h, q)
  BY DEF Queues
<1>2. /\ a \in Seq(JobT) /\ a[n] = b
      /\ \A i \in DOMAIN j : i \in DOMAIN a /\ a[i] = j[i] /\ i < n
      /\ \A i \in DOMAIN a : i \in DOMAIN j \/ i = n
  BY <1>1, AppendFacts
<1>3. n \in Nat /\ \A i \in DOMAIN j : i \in Nat
  BY <1>1
<1> HIDE DEF a, n
<1>4. Carried(m, l, a, q)
  BY <1>1, <1>2 DEF Carried
<1>5. Sole(m, l, a)
  BY <1>1, <1>2 DEF Sole, Idle
<1>6. Ordered(m, a, h, q)
  <2>1. \A i \in DOMAIN a : a[i].kind = "read" => a[i].req > h[q[a[i].req].src]
    BY <1>1, <1>2 DEF Ordered
  <2>2. \A i, k \in DOMAIN a :
           i < k /\ a[i].kind = "tell" /\ a[k].kind = "read" => a[i].req < a[k].req
    <3>1. \A k \in DOMAIN j : ~(n < k)
      BY <1>2, <1>3
    <3>2. ~(n < n)
      BY <1>3
    <3> QED BY <1>1, <1>2, <3>1, <3>2 DEF Ordered
  <2>3. \A i \in DOMAIN m : \A k \in DOMAIN a :
           m[i].kind = "answer" /\ a[k].kind = "read" => m[i].req < a[k].req
    BY <1>1, <1>2 DEF Ordered
  <2> QED BY <1>1, <2>1, <2>2, <2>3 DEF Ordered
<1>7. Queues(m, l, a, h, q)
  BY <1>2, <1>4, <1>5, <1>6 DEF Queues
<1> QED BY <1>7 DEF a

\* Whatever may be carried for a may be carried for b.
Follows(a, b) ==
    /\ a.at = "posted" => b.at = "posted"
    /\ a.at = "ending" => b.at = "ending"
    /\ Due(a) => Due(b)

\* Requests change, if nothing carries them, and are added.
LEMMA ReqsKeep ==
    ASSUME NEW m, NEW l, NEW j, NEW h, NEW q, Queues(m, l, j, h, q), NEW p \in Seq(RequestT),
           DOMAIN q \subseteq DOMAIN p, Len(q) <= Len(p),
           \A x \in DOMAIN q : /\ p[x].src = q[x].src
                               /\ Follows(q[x], p[x]) \/ Idle(x, m, l, j)
    PROVE  Queues(m, l, j, h, p)
<1>1. /\ m \in Seq(BlockT) /\ l \in Seq(TimerT) /\ j \in Seq(JobT) /\ h \in [Sources -> Nat]
      /\ q \in Seq(RequestT) /\ Carried(m, l, j, q) /\ Sole(m, l, j) /\ Ordered(m, j, h, q)
  BY DEF Queues
<1>2. ASSUME NEW i \in DOMAIN m
      PROVE  BlockOK(m[i], p)
  <2>1. BlockOK(m[i], q) /\ m[i].req \in DOMAIN q
    BY <1>1 DEF Carried, BlockOK
  <2>2. CASE Follows(q[m[i].req], p[m[i].req])
    BY <2>1, <2>2 DEF BlockOK, Follows
  <2>3. CASE Idle(m[i].req, m, l, j)
    <3>1. m[i].kind = "cached"
      BY <2>3 DEF Idle
    <3> QED BY <2>1, <3>1 DEF BlockOK, Ending
  <2> QED BY <2>1, <2>2, <2>3
<1>3. ASSUME NEW i \in DOMAIN l
      PROVE  TimerOK(l[i], p)
  <2>1. TimerOK(l[i], q) /\ l[i].req \in DOMAIN q
    BY <1>1 DEF Carried, TimerOK
  <2>2. ~Idle(l[i].req, m, l, j)
    BY DEF Idle
  <2> QED BY <2>1, <2>2 DEF TimerOK, Follows
<1>4. ASSUME NEW i \in DOMAIN j
      PROVE  JobOK(j[i], p)
  <2>1. JobOK(j[i], q) /\ j[i].req \in DOMAIN q
    BY <1>1 DEF Carried, JobOK
  <2>2. j[i].kind = "tell" => ~Idle(j[i].req, m, l, j)
    BY DEF Idle
  <2> QED BY <2>1, <2>2 DEF JobOK, Follows
<1>5. Carried(m, l, j, p)
  BY <1>2, <1>3, <1>4 DEF Carried
<1>6. Ordered(m, j, h, p)
  <2>1. \A i \in DOMAIN m : p[m[i].req].src = q[m[i].req].src
    BY <1>1 DEF Carried, BlockOK
  <2>2. \A i \in DOMAIN j : p[j[i].req].src = q[j[i].req].src
    BY <1>1 DEF Carried, JobOK
  <2>3. Len(q) \in Nat /\ Len(p) \in Nat
    BY <1>1
  <2>4. \A s \in Sources : h[s] <= Len(p)
    BY <1>1, <2>3 DEF Ordered
  <2> QED BY <1>1, <2>1, <2>2, <2>4 DEF Ordered
<1> QED BY <1>1, <1>5, <1>6 DEF Queues

LEMMA InvFacts ==
    ASSUME IInv
    PROVE  /\ TypeInv /\ Queues(main, later, jobs, heard, reqs)
           /\ \A r \in DOMAIN reqs : Sound(reqs[r])
BY Typed DEF IInv, Good, Queues

LEMMA InvAgain ==
    ASSUME TypeInv', Queues(main', later', jobs', heard', reqs'),
           \A r \in DOMAIN reqs' : Sound(reqs'[r])
    PROVE  IInv'
BY DEF IInv, Good, Queues

\* One request changes that nothing carries any more, or nothing did.
LEMMA OneReq ==
    ASSUME IInv, NEW r \in DOMAIN reqs, NEW e \in RequestT, e.src = reqs[r].src, Sound(e),
           NEW m, NEW l, NEW j, Queues(m, l, j, heard, reqs),
           Idle(r, m, l, j) \/ Follows(reqs[r], e)
    PROVE  LET q == [reqs EXCEPT ![r] = e]
           IN  /\ q \in Seq(RequestT) /\ DOMAIN q = DOMAIN reqs /\ q[r] = e
               /\ Queues(m, l, j, heard, q)
               /\ \A x \in DOMAIN q : Sound(q[x])
<1> DEFINE q == [reqs EXCEPT ![r] = e]
<1>1. /\ q \in Seq(RequestT) /\ DOMAIN q = DOMAIN reqs /\ Len(q) = Len(reqs)
      /\ q[r] = e /\ \A x \in DOMAIN reqs : x # r => q[x] = reqs[x]
  BY InvFacts, ReqType
<1>2. Len(reqs) \in Nat /\ DOMAIN reqs \subseteq DOMAIN q /\ Len(reqs) <= Len(q)
  <2>1. Len(reqs) \in Nat
    BY InvFacts, Typed
  <2> HIDE DEF q
  <2> QED BY <1>1, <2>1
<1> HIDE DEF q
<1>3. \A x \in DOMAIN reqs : /\ q[x].src = reqs[x].src
                             /\ Follows(reqs[x], q[x]) \/ Idle(x, m, l, j)
  BY <1>1 DEF Follows
<1>4. Queues(m, l, j, heard, q)
  BY <1>1, <1>2, <1>3, ReqsKeep
<1>5. \A x \in DOMAIN q : Sound(q[x])
  BY <1>1, InvFacts
<1> QED BY <1>1, <1>4, <1>5 DEF q

-----------------------------------------------------------------------------
(* Gestures.                                                               *)

LEMMA DroppedFacts ==
    ASSUME IInv, NEW s \in Sources
    PROVE  /\ Dropped(s) \in Seq(RequestT) /\ DOMAIN Dropped(s) = DOMAIN reqs
           /\ Len(Dropped(s)) = Len(reqs)
           /\ \A x \in DOMAIN reqs : /\ Dropped(s)[x].src = reqs[x].src
                                     /\ Sound(Dropped(s)[x])
                                     /\ Follows(reqs[x], Dropped(s)[x])
<1> DEFINE q == Dropped(s)
<1>1. DOMAIN reqs = 1..Len(reqs) /\ Len(reqs) \in Nat
  BY InvFacts, Typed
<1>2. ASSUME NEW x \in DOMAIN reqs
      PROVE  /\ q[x] \in RequestT /\ q[x].src = reqs[x].src /\ Sound(q[x])
             /\ Follows(reqs[x], q[x])
  <2> DEFINE a == reqs[x]
  <2>1. a \in RequestT /\ Sound(a)
    BY InvFacts, Typed
  <2>2. CASE a.src = s
    <3>1. a.void \in BOOLEAN /\ a.item \in BOOLEAN
      BY <2>1 DEF RequestT
    <3>2. PICK c \in BOOLEAN : c = (a.void \/ a.item)
      BY <3>1
    <3>3. q[x] = [a EXCEPT !.item = FALSE, !.void = c]
      BY <2>2, <3>2 DEF Dropped
    <3> DEFINE e == [a EXCEPT !.item = FALSE, !.void = c]
    <3>4. /\ e \in RequestT /\ e.src = a.src /\ e.at = a.at /\ e.told = a.told
          /\ e.item = FALSE /\ e.void = c
      BY <2>1 DEF RequestT
    <3> HIDE DEF e, a
    <3>5. Sound(e)
      BY <2>1, <3>1, <3>2, <3>4 DEF Sound
    <3>6. Follows(a, e)
      BY <2>1, <3>1, <3>2, <3>4 DEF Sound, Follows, Due
    <3> QED BY <3>3, <3>4, <3>5, <3>6 DEF e, a
  <2>3. CASE a.src # s
    <3>1. q[x] = a
      BY <2>3 DEF Dropped
    <3> QED BY <2>1, <3>1 DEF Follows
  <2> QED BY <2>2, <2>3
<1>3. q = [x \in 1..Len(reqs) |-> q[x]]
  BY <1>1 DEF Dropped
<1>4. DOMAIN q = 1..Len(reqs)
  BY <1>1 DEF Dropped
<1> HIDE DEF q
<1>5. q \in [1..Len(reqs) -> RequestT]
  BY <1>1, <1>2, <1>3
<1>6. q \in Seq(RequestT) /\ Len(q) = Len(reqs)
  BY <1>1, <1>4, <1>5, SeqDef
<1> QED BY <1>1, <1>2, <1>4, <1>6 DEF q

LEMMA SubmitInv ==
    ASSUME IInv, NEW s \in Sources, NEW d \in SourceT, d.subject <= MaxSubject,
           NEW rs \in Seq(RequestT), DOMAIN rs = DOMAIN reqs, Len(rs) = Len(reqs),
           \A x \in DOMAIN reqs : /\ rs[x].src = reqs[x].src
                                  /\ Sound(rs[x])
                                  /\ Follows(reqs[x], rs[x]),
           Submit(s, d, rs),
           wants' \in [Sources -> Nat], last' \in [Sources -> Body \cup {NoBody}],
           UNCHANGED <<later, cache, version, heard>>
    PROVE  IInv'
<1> DEFINE r == Len(rs) + 1
           k == Key(s, d.subject)
           new == [src |-> s, key |-> k, page |-> d.pageIndex,
                   at |-> "posted", item |-> TRUE, changed |-> TRUE,
                   body |-> NoBody, told |-> 0, void |-> FALSE]
           q == Append(rs, new)
           b == Block("start", r, NoBody)
           a == Job("read", r, k)
<1>1. /\ TypeInv /\ Queues(main, later, jobs, heard, reqs)
      /\ \A x \in DOMAIN reqs : Sound(reqs[x])
  BY InvFacts
<1>2. /\ Len(reqs) \in Nat /\ DOMAIN reqs = 1..Len(reqs) /\ r \in Nat \ {0}
      /\ heard \in [Sources -> Nat]
  BY <1>1, Typed
<1>3. d.subject \in Nat \ {0} /\ d.pageIndex \in Nat \ {0}
  BY DEF SourceT
<1>4. k \in Keys
  BY <1>3, KeyType
<1> HIDE DEF k
<1>5. /\ new \in RequestT /\ new.src = s /\ Sound(new)
  BY <1>3, <1>4 DEF RequestT, Sound
<1> HIDE DEF new
<1>6. /\ q \in Seq(RequestT) /\ q[r] = new /\ Len(q) = r /\ DOMAIN q = DOMAIN reqs \cup {r}
      /\ \A x \in DOMAIN reqs : q[x] = rs[x]
  BY <1>2, <1>5
<1>7. /\ b \in BlockT /\ b.kind = "start" /\ b.req = r
  BY <1>2 DEF Block, BlockT
<1>8. /\ a \in JobT /\ a.kind = "read" /\ a.req = r
  BY <1>2, <1>4 DEF Job, JobT
<1>9. r > Len(reqs) /\ \A x \in DOMAIN reqs : x < r
  BY <1>2
<1>10. /\ ds' = [ds EXCEPT ![s] = d] /\ reqs' = q /\ main' = Append(main, b)
       /\ jobs' = IF d.pageIndex = 1 THEN Append(jobs, a) ELSE jobs
  BY DEF Submit, k, new
<1> HIDE DEF q, b, a, r
<1>11. Queues(main, later, jobs, heard, q)
  <2>1. \A x \in DOMAIN reqs : q[x].src = reqs[x].src /\ Follows(reqs[x], q[x])
    BY <1>6
  <2>2. DOMAIN reqs \subseteq DOMAIN q /\ Len(reqs) <= Len(q)
    BY <1>2, <1>6, <1>9
  <2> QED BY <1>1, <1>6, <2>1, <2>2, ReqsKeep
<1>12. /\ \A i \in DOMAIN main : main[i].req < r
       /\ \A i \in DOMAIN later : later[i].req < r
       /\ \A i \in DOMAIN jobs : jobs[i].req < r
  BY <1>1, <1>9 DEF Queues, Carried, BlockOK, TimerOK, JobOK
<1>13. /\ \A i \in DOMAIN main : main[i].req \in Nat
       /\ \A i \in DOMAIN later : later[i].req \in Nat
       /\ \A i \in DOMAIN jobs : jobs[i].req \in Nat
  BY <1>1, <1>2 DEF Queues, Carried, BlockOK, TimerOK, JobOK
<1>14. Idle(r, main, later, jobs)
  BY <1>2, <1>12, <1>13 DEF Idle
<1>15. r > heard[s]
  <2>1. heard[s] <= Len(reqs) /\ heard[s] \in Nat
    BY <1>1, <1>2 DEF Queues, Ordered
  <2> QED BY <1>2, <1>9, <2>1
<1>16. Queues(main, later, jobs', heard, q) /\ Idle(r, main, later, jobs')
  <2>1. CASE d.pageIndex = 1
    <3>1. jobs' = Append(jobs, a)
      BY <1>10, <2>1
    <3>2. JobOK(a, q)
      BY <1>6, <1>8 DEF JobOK
    <3>3. a.req > heard[q[a.req].src]
      BY <1>5, <1>6, <1>8, <1>15
    <3>4. Queues(main, later, Append(jobs, a), heard, q)
      BY <1>8, <1>11, <1>12, <3>2, <3>3, JobsAppend
    <3>5. jobs \in Seq(JobT)
      BY <1>1 DEF Queues
    <3>6. \A i \in DOMAIN Append(jobs, a) :
             \/ i \in DOMAIN jobs /\ Append(jobs, a)[i] = jobs[i]
             \/ Append(jobs, a)[i] = a
      BY <1>8, <3>5, AppendFacts
    <3>7. Idle(r, main, later, Append(jobs, a))
      BY <1>8, <1>14, <3>6 DEF Idle
    <3> QED BY <3>1, <3>4, <3>7
  <2>2. CASE d.pageIndex # 1
    BY <1>10, <1>11, <1>14, <2>2
  <2> QED BY <2>1, <2>2
<1>17. BlockOK(b, q)
  BY <1>5, <1>6, <1>7 DEF BlockOK, Ending, new
<1>18. Queues(main', later', jobs', heard', reqs')
  BY <1>7, <1>10, <1>16, <1>17, MainAppend
<1>19. \A x \in DOMAIN reqs' : Sound(reqs'[x])
  BY <1>5, <1>6, <1>10
<1>20. TypeInv'
  <2>1. ds' \in [Sources -> SourceT] /\ \A x \in Sources : ds'[x].subject <= MaxSubject
    BY <1>1, <1>10, SourceType
  <2> QED BY <1>1, <1>18, <2>1, Typed, TypedAgain DEF Queues
<1> QED BY <1>18, <1>19, <1>20, InvAgain

LEMMA ReloadedType ==
    ASSUME NEW d \in SourceT
    PROVE  Reloaded(d) \in SourceT /\ Reloaded(d).subject = d.subject
<1>1. PICK c \in BOOLEAN : c = (d.dataChanged \/ d.pageIndex # 1)
  BY DEF SourceT
<1>2. PICK n \in Nat \ {0} : n = 1
  OBVIOUS
<1>3. Reloaded(d) = [d EXCEPT !.loading = TRUE, !.pageIndex = n, !.dataChanged = c]
  BY <1>1, <1>2 DEF Reloaded
<1> QED BY <1>3 DEF SourceT

LEMMA MoreType ==
    ASSUME NEW d \in SourceT
    PROVE  More(d) \in SourceT /\ More(d).subject = d.subject
<1>1. PICK n \in Nat \ {0} : n = d.pageIndex + 1
  BY DEF SourceT
<1>2. More(d) = [d EXCEPT !.pageIndex = n, !.loading = TRUE]
  BY <1>1 DEF More
<1> QED BY <1>2 DEF SourceT

LEMMA ReqsThemselves ==
    ASSUME IInv
    PROVE  \A x \in DOMAIN reqs : Sound(reqs[x]) /\ Follows(reqs[x], reqs[x])
BY InvFacts DEF Follows

LEMMA RefreshStep == ASSUME IInv, NEW s \in Sources, Refresh(s) PROVE IInv'
<1>1. /\ ds[s] \in SourceT /\ ds[s].subject <= MaxSubject /\ reqs \in Seq(RequestT)
      /\ wants \in [Sources -> Nat] /\ last \in [Sources -> Body \cup {NoBody}]
  BY InvFacts, Typed
<1>2. Reloaded(ds[s]) \in SourceT /\ Reloaded(ds[s]).subject <= MaxSubject
  BY <1>1, ReloadedType
<1>3. Submit(s, Reloaded(ds[s]), reqs) /\ UNCHANGED <<wants, later, cache, version, heard, last>>
  BY DEF Refresh
<1> QED BY <1>1, <1>2, <1>3, ReqsThemselves, SubmitInv

\* The posted call: a page behind the last, asked for by what is stale when the
\* scroll's condition no longer holds.
LEMMA LoadMoreFacts ==
    ASSUME IInv, NEW s \in Sources, LoadMore(s)
    PROVE  \E d \in SourceT :
              /\ Submit(s, d, reqs) /\ d.subject = ds[s].subject
              /\ d.pageIndex = ds[s].pageIndex + 1 /\ d.loading = TRUE
              /\ d.list = ds[s].list /\ d.hasMore = ds[s].hasMore
              /\ d.dataChanged = ds[s].dataChanged /\ d.shown = ds[s].shown
              /\ d.stale = (ds[s].stale \/ ~MayLoadMore(ds[s]))
<1>1. ds[s] \in SourceT
  BY InvFacts, Typed
<1>2. PICK c \in BOOLEAN : c = (ds[s].stale \/ ~MayLoadMore(ds[s]))
  BY <1>1 DEF SourceT
<1> DEFINE f == [ds[s] EXCEPT !.stale = c]
<1>3. Submit(s, More(f), reqs)
  BY <1>2 DEF LoadMore
<1>4. /\ f \in SourceT /\ f.subject = ds[s].subject /\ f.pageIndex = ds[s].pageIndex
      /\ f.list = ds[s].list /\ f.hasMore = ds[s].hasMore /\ f.stale = c
      /\ f.dataChanged = ds[s].dataChanged /\ f.shown = ds[s].shown
  BY <1>1 DEF SourceT
<1> HIDE DEF f
<1>5. More(f) \in SourceT
  BY <1>4, MoreType
<1>6. /\ More(f).subject = f.subject /\ More(f).pageIndex = f.pageIndex + 1
      /\ More(f).loading = TRUE /\ More(f).list = f.list /\ More(f).hasMore = f.hasMore
      /\ More(f).dataChanged = f.dataChanged /\ More(f).shown = f.shown
      /\ More(f).stale = f.stale
  BY <1>4 DEF More, SourceT
<1> QED BY <1>2, <1>3, <1>4, <1>5, <1>6

LEMMA LoadMoreStep == ASSUME IInv, NEW s \in Sources, LoadMore(s) PROVE IInv'
<1>1. /\ ds[s].subject <= MaxSubject /\ reqs \in Seq(RequestT)
      /\ wants \in [Sources -> Nat] /\ last \in [Sources -> Body \cup {NoBody}]
  BY InvFacts, Typed
<1>2. PICK d \in SourceT : Submit(s, d, reqs) /\ d.subject = ds[s].subject
  BY LoadMoreFacts
<1>3. UNCHANGED <<later, cache, version, heard, last>>
  BY DEF LoadMore
<1>4. wants' \in [Sources -> Nat]
  BY <1>1 DEF LoadMore
<1>5. last' = last
  BY <1>3
<1> QED BY <1>1, <1>2, <1>3, <1>4, <1>5, ReqsThemselves, SubmitInv

\* Another item for the cell: a first page of another address, asked for by what is
\* stale when an answer is due that the cancellation did not reach.
LEMMA RebindFacts ==
    ASSUME IInv, NEW s \in Sources, Rebind(s)
    PROVE  \E d \in SourceT :
              /\ Submit(s, d, Dropped(s)) /\ d.subject = ds[s].subject + 1
              /\ d.subject <= MaxSubject /\ d.pageIndex = 1 /\ d.loading = TRUE
              /\ d.stale = (ds[s].stale \/ Awaited(s, Dropped(s)))
<1>1. ds[s] \in SourceT /\ ds[s].subject \in Nat \ {0}
  BY InvFacts, Typed
<1>2. PICK c \in BOOLEAN : c = (ds[s].stale \/ Awaited(s, Dropped(s)))
  BY <1>1 DEF SourceT
<1>3. PICK n \in Nat \ {0} : n = ds[s].subject + 1
  BY <1>1
<1> DEFINE f == [ds[s] EXCEPT !.subject = n, !.loading = FALSE, !.stale = c]
<1>4. Submit(s, Reloaded(f), Dropped(s))
  <2>1. f = [ds[s] EXCEPT !.subject = @ + 1, !.loading = FALSE,
                          !.stale = @ \/ Awaited(s, Dropped(s))]
    BY <1>2, <1>3
  <2> HIDE DEF f
  <2> QED BY <2>1 DEF Rebind
<1>5. f \in SourceT /\ f.subject = n /\ f.stale = c
  BY <1>1 DEF SourceT
<1> HIDE DEF f
<1>6. /\ Reloaded(f) \in SourceT /\ Reloaded(f).subject = n
      /\ Reloaded(f).pageIndex = 1 /\ Reloaded(f).loading = TRUE /\ Reloaded(f).stale = c
  BY <1>5, ReloadedType DEF Reloaded, SourceT
<1>7. n <= MaxSubject
  BY <1>1, <1>3, PageAssumption DEF Rebind
<1> QED BY <1>2, <1>3, <1>4, <1>6, <1>7

LEMMA RebindStep == ASSUME IInv, NEW s \in Sources, Rebind(s) PROVE IInv'
<1>1. wants \in [Sources -> Nat] /\ last \in [Sources -> Body \cup {NoBody}]
  BY InvFacts, Typed
<1>2. PICK d \in SourceT : Submit(s, d, Dropped(s)) /\ d.subject <= MaxSubject
  BY RebindFacts
<1>3. /\ wants' = wants /\ UNCHANGED <<later, cache, version, heard>>
      /\ last' \in [Sources -> Body \cup {NoBody}]
  BY <1>1 DEF Rebind
<1> QED BY <1>1, <1>2, <1>3, DroppedFacts, SubmitInv

LEMMA LeaveStep == ASSUME IInv, NEW s \in Sources, Leave(s) PROVE IInv'
<1> DEFINE d == [ds[s] EXCEPT !.shown = FALSE, !.loading = FALSE]
<1>1. /\ TypeInv /\ ds \in [Sources -> SourceT] /\ ds[s] \in SourceT /\ ds[s].subject <= MaxSubject
  BY InvFacts, Typed
<1>2. d \in SourceT /\ d.subject <= MaxSubject
  BY <1>1 DEF SourceT
<1>3. ds' = [ds EXCEPT ![s] = d]
  BY <1>1 DEF Leave
<1>4. /\ reqs' = Dropped(s) /\ UNCHANGED <<wants, main, later, jobs, cache, version, heard, last>>
  BY DEF Leave
<1> HIDE DEF d
<1>5. ds' \in [Sources -> SourceT] /\ \A x \in Sources : ds'[x].subject <= MaxSubject
  BY <1>1, <1>2, <1>3, SourceType
<1>6. Len(reqs) \in Nat
  BY <1>1, Typed
<1>7. Queues(main, later, jobs, heard, reqs')
  BY <1>4, <1>6, InvFacts, DroppedFacts, ReqsKeep
<1>8. TypeInv'
  BY <1>1, <1>4, <1>5, DroppedFacts, Typed, TypedAgain
<1> QED BY <1>4, <1>7, <1>8, DroppedFacts, InvAgain

LEMMA ScrollStep == ASSUME IInv, NEW s \in Sources, Scroll(s) PROVE IInv'
<1>1. wants' \in [Sources -> Nat]
  BY InvFacts, Typed DEF Scroll
<1>2. UNCHANGED <<ds, reqs, main, later, jobs, cache, version, heard, last>>
  BY DEF Scroll
<1>3. TypeInv'
  BY <1>1, <1>2, InvFacts, Typed, TypedAgain
<1> QED BY <1>2, <1>3, InvFacts, InvAgain

-----------------------------------------------------------------------------
(* The HTTP operations.                                                    *)

LEMMA AtType ==
    ASSUME NEW a \in RequestT, NEW t \in {"posted", "queued", "open", "ending", "done"}
    PROVE  LET e == [a EXCEPT !.at = t]
           IN  /\ e \in RequestT /\ e.src = a.src /\ e.at = t /\ e.told = a.told
               /\ e.item = a.item /\ e.void = a.void
BY DEF RequestT

\* A request moves on without an answer.
LEMMA AtSound ==
    ASSUME NEW a \in RequestT, Sound(a), a.at # "done",
           NEW t \in {"posted", "queued", "open", "ending"}
    PROVE  Sound([a EXCEPT !.at = t])
<1> DEFINE e == [a EXCEPT !.at = t]
<1>1. e.at = t /\ e.told = a.told /\ e.item = a.item /\ e.void = a.void
  BY AtType
<1> HIDE DEF e
<1>2. Sound(e)
  BY <1>1 DEF Sound
<1> QED BY <1>2 DEF e

\* Nothing on a queue is about an operation that waits or is connected.
LEMMA OpenIdle ==
    ASSUME NEW m, NEW l, NEW j, NEW h, NEW q, Queues(m, l, j, h, q), NEW r \in DOMAIN q,
           q[r].at \in {"queued", "open"}
    PROVE  Idle(r, m, l, j)
<1>1. /\ m \in Seq(BlockT) /\ l \in Seq(TimerT) /\ j \in Seq(JobT) /\ Carried(m, l, j, q)
  BY DEF Queues
<1>2. ASSUME NEW i \in DOMAIN m, m[i].kind # "cached"
      PROVE  m[i].req # r
  <2>1. m[i] \in BlockT /\ BlockOK(m[i], q)
    BY <1>1 DEF Carried
  <2>2. m[i].kind \in {"start", "loaded", "failed", "timeout", "answer"}
    BY <1>2, <2>1 DEF BlockT
  <2> QED BY <2>1, <2>2 DEF BlockOK, Ending, Due
<1>3. ASSUME NEW i \in DOMAIN l
      PROVE  l[i].req # r
  <2>1. l[i] \in TimerT /\ TimerOK(l[i], q)
    BY <1>1 DEF Carried
  <2>2. l[i].kind \in {"fail", "answer"}
    BY <2>1 DEF TimerT
  <2> QED BY <2>1, <2>2 DEF TimerOK, Due
<1>4. ASSUME NEW i \in DOMAIN j, j[i].kind = "tell"
      PROVE  j[i].req # r
  <2>1. JobOK(j[i], q)
    BY <1>1 DEF Carried
  <2> QED BY <1>4, <2>1 DEF JobOK, Due
<1> QED BY <1>2, <1>3, <1>4 DEF Idle

LEMMA StartOpStep == ASSUME IInv, NEW r \in DOMAIN reqs, StartOp(r) PROVE IInv'
<1> DEFINE e == [reqs[r] EXCEPT !.at = "open"]
<1>1. /\ TypeInv /\ Queues(main, later, jobs, heard, reqs) /\ reqs[r] \in RequestT
      /\ Sound(reqs[r]) /\ reqs \in Seq(RequestT)
  BY InvFacts, Typed
<1>2. reqs[r].at = "queued" /\ reqs' = [reqs EXCEPT ![r] = e]
  BY <1>1 DEF StartOp, At
<1>3. e \in RequestT /\ e.src = reqs[r].src
  BY <1>1, AtType
<1>4. Sound(e)
  BY <1>1, <1>2, AtSound
<1>5. UNCHANGED <<ds, wants, main, later, jobs, cache, version, heard, last>>
  BY DEF StartOp
<1> HIDE DEF e
<1>6. Idle(r, main, later, jobs)
  BY <1>1, <1>2, OpenIdle
<1>7. /\ Queues(main', later', jobs', heard', reqs') /\ reqs' \in Seq(RequestT)
      /\ \A x \in DOMAIN reqs' : Sound(reqs'[x])
  BY <1>1, <1>2, <1>3, <1>4, <1>5, <1>6, OneReq
<1>8. TypeInv'
  BY <1>1, <1>5, <1>7, Typed, TypedAgain
<1> QED BY <1>7, <1>8, InvAgain

\* An operation ends in one of the three ways, and says so to the main thread.
LEMMA EndsStep ==
    ASSUME IInv, NEW r \in DOMAIN reqs, reqs[r].at = "open", NEW e \in RequestT,
           e = [reqs[r] EXCEPT !.at = "ending", !.body = e.body],
           reqs' = [reqs EXCEPT ![r] = e],
           NEW kind \in Ending, main' = Append(main, Block(kind, r, NoBody)),
           UNCHANGED <<ds, wants, later, jobs, cache, version, heard, last>>
    PROVE  IInv'
<1> DEFINE b == Block(kind, r, NoBody)
<1>1. /\ TypeInv /\ Queues(main, later, jobs, heard, reqs) /\ reqs[r] \in RequestT
      /\ Sound(reqs[r]) /\ r \in Nat \ {0}
  BY InvFacts, Typed
<1>2. /\ e.src = reqs[r].src /\ e.at = "ending" /\ e.told = reqs[r].told
      /\ e.item = reqs[r].item /\ e.void = reqs[r].void
  BY <1>1 DEF RequestT
<1>3. Sound(e)
  BY <1>1, <1>2 DEF Sound
<1>4. Idle(r, main, later, jobs)
  BY <1>1, OpenIdle
<1>5. /\ Queues(main, later, jobs, heard, reqs') /\ reqs' \in Seq(RequestT)
      /\ DOMAIN reqs' = DOMAIN reqs /\ reqs'[r] = e
      /\ \A x \in DOMAIN reqs' : Sound(reqs'[x])
  BY <1>1, <1>2, <1>3, <1>4, OneReq
<1>6. b \in BlockT /\ b.kind = kind /\ b.req = r /\ kind # "cached" /\ kind # "answer"
  BY <1>1 DEF Block, BlockT, Ending
<1> HIDE DEF b
<1>7. BlockOK(b, reqs')
  BY <1>2, <1>5, <1>6 DEF BlockOK, Ending
<1>8. Queues(Append(main, b), later, jobs, heard, reqs')
  BY <1>4, <1>5, <1>6, <1>7, MainAppend
<1>9. Queues(main', later', jobs', heard', reqs')
  BY <1>8 DEF b
<1>10. TypeInv'
  <2>1. main' \in Seq(BlockT)
    BY <1>9 DEF Queues
  <2> QED BY <1>1, <1>5, <2>1, Typed, TypedAgain
<1> QED BY <1>5, <1>9, <1>10, InvAgain

LEMMA EndOpStep == ASSUME IInv, NEW r \in DOMAIN reqs, EndOp(r) PROVE IInv'
<1>1. /\ TypeInv /\ reqs[r] \in RequestT /\ ds \in [Sources -> SourceT]
      /\ version \in Nat \ {0} /\ reqs \in Seq(RequestT)
  BY InvFacts, Typed
<1>2. CASE Answer(r)
  <2>1. PICK body \in {[key |-> reqs[r].key, page |-> reqs[r].page, ver |-> version], Junk} :
           reqs' = [reqs EXCEPT ![r].at = "ending", ![r].body = body]
    BY <1>2 DEF Answer
  <2>2. reqs[r].key \in Keys /\ reqs[r].page \in Nat \ {0}
    BY <1>1 DEF RequestT
  <2>3. body \in Body
    BY <1>1, <2>1, <2>2, BodyType DEF Body
  <2> DEFINE e == [reqs[r] EXCEPT !.at = "ending", !.body = body]
  <2>4. e \in RequestT /\ e.body = body
    BY <1>1, <2>3 DEF RequestT
  <2>5. reqs' = [reqs EXCEPT ![r] = e]
    BY <1>1, <2>1
  <2>6. /\ reqs[r].at = "open" /\ main' = Append(main, Block("loaded", r, NoBody))
        /\ UNCHANGED <<ds, wants, later, jobs, cache, version, heard, last>>
    BY <1>2 DEF Answer
  <2>7. e = [reqs[r] EXCEPT !.at = "ending", !.body = e.body] /\ "loaded" \in Ending
    BY <2>4 DEF Ending
  <2> HIDE DEF e
  <2> QED BY <2>4, <2>5, <2>6, <2>7, EndsStep
<1>3. ASSUME NEW kind \in {"failed", "timeout"}, reqs[r].at = "open", At(r, "ending"),
             main' = Append(main, Block(kind, r, NoBody)),
             UNCHANGED <<ds, wants, later, jobs, cache, version, heard, last>>
      PROVE  IInv'
  <2> DEFINE e == [reqs[r] EXCEPT !.at = "ending"]
  <2>1. e \in RequestT
    BY <1>1, AtType
  <2>2. reqs' = [reqs EXCEPT ![r] = e]
    BY <1>1, <1>3 DEF At
  <2>3. e = [reqs[r] EXCEPT !.at = "ending", !.body = e.body] /\ kind \in Ending
    BY <1>1 DEF Ending, RequestT
  <2> HIDE DEF e
  <2> QED BY <1>3, <2>1, <2>2, <2>3, EndsStep
<1>4. CASE Break(r)
  BY <1>3, <1>4 DEF Break
<1>5. CASE Timeout(r)
  BY <1>3, <1>5 DEF Timeout
<1> QED BY <1>2, <1>4, <1>5 DEF EndOp

-----------------------------------------------------------------------------
(* The main thread.                                                        *)

LEMMA RunBlockFacts ==
    ASSUME IInv, NEW kind, RunBlock(kind)
    PROVE  /\ main # <<>> /\ main' = Tail(main) /\ main' \in Seq(BlockT)
           /\ Head(main).kind = kind /\ Head(main).req \in DOMAIN reqs
           /\ BlockOK(Head(main), reqs) /\ Head(main) \in BlockT
           /\ Queues(main', later, jobs, heard, reqs)
           /\ kind # "cached" => Idle(Head(main).req, main', later, jobs)
<1>1. Queues(main, later, jobs, heard, reqs)
  BY InvFacts
<1>2. main # <<>> /\ main' = Tail(main) /\ Head(main).kind = kind
  BY DEF RunBlock
<1>3. /\ Queues(Tail(main), later, jobs, heard, reqs) /\ Head(main) \in BlockT
      /\ BlockOK(Head(main), reqs)
      /\ kind # "cached" => Idle(Head(main).req, Tail(main), later, jobs)
  BY <1>1, <1>2, MainTail
<1> QED BY <1>2, <1>3 DEF Queues, BlockOK

LEMMA RunTimerFacts ==
    ASSUME IInv, NEW kind, RunTimer(kind)
    PROVE  /\ later' = Tail(later) /\ later' \in Seq(TimerT)
           /\ Head(later).kind = kind /\ Head(later).req \in DOMAIN reqs
           /\ TimerOK(Head(later), reqs) /\ Head(later) \in TimerT
           /\ Queues(main, later', jobs, heard, reqs)
           /\ Idle(Head(later).req, main, later', jobs)
<1>1. Queues(main, later, jobs, heard, reqs)
  BY InvFacts
<1>2. later # <<>> /\ later' = Tail(later) /\ Head(later).kind = kind
  BY DEF RunTimer
<1>3. /\ Queues(main, Tail(later), jobs, heard, reqs) /\ Head(later) \in TimerT
      /\ TimerOK(Head(later), reqs)
      /\ Idle(Head(later).req, main, Tail(later), jobs)
  BY <1>1, <1>2, LaterTail
<1> QED BY <1>2, <1>3 DEF Queues, TimerOK

LEMMA StartHttpStep == ASSUME IInv, StartHttp PROVE IInv'
<1> DEFINE r == Head(main).req
           e == [reqs[r] EXCEPT !.at = "queued"]
<1>1. /\ main' \in Seq(BlockT) /\ r \in DOMAIN reqs /\ BlockOK(Head(main), reqs)
      /\ Head(main).kind = "start"
      /\ Queues(main', later, jobs, heard, reqs) /\ Idle(r, main', later, jobs)
  BY RunBlockFacts DEF StartHttp
<1>2. reqs[r].at = "posted"
  BY <1>1 DEF BlockOK
<1>3. /\ UNCHANGED <<ds, wants, later, jobs, cache, version, heard, last>>
      /\ At(r, "queued")
  BY DEF StartHttp
<1> HIDE DEF r
<1>4. /\ TypeInv /\ reqs[r] \in RequestT /\ Sound(reqs[r]) /\ reqs \in Seq(RequestT)
  BY <1>1, InvFacts, Typed
<1>5. reqs' = [reqs EXCEPT ![r] = e]
  BY <1>3, <1>4 DEF At
<1>6. e \in RequestT /\ e.src = reqs[r].src /\ Sound(e)
  BY <1>2, <1>4, AtType, AtSound
<1> HIDE DEF e
<1>7. /\ Queues(main', later, jobs, heard, reqs') /\ reqs' \in Seq(RequestT)
      /\ \A x \in DOMAIN reqs' : Sound(reqs'[x])
  BY <1>1, <1>5, <1>6, OneReq
<1>8. TypeInv'
  BY <1>1, <1>3, <1>4, <1>7, Typed, TypedAgain
<1> QED BY <1>3, <1>7, <1>8, InvAgain

LEMMA FailedType ==
    ASSUME NEW d \in SourceT
    PROVE  Failed(d) \in SourceT /\ Failed(d).subject = d.subject
BY DEF Failed, SourceT

\* The end of an operation that failed, its block or timer taken already.
LEMMA EndFailedFacts ==
    ASSUME IInv, NEW r \in DOMAIN reqs, reqs[r].at = "ending", EndFailed(r),
           NEW m, NEW l, Queues(m, l, jobs, heard, reqs), Idle(r, m, l, jobs)
    PROVE  /\ Queues(m, l, jobs, heard, reqs') /\ reqs' \in Seq(RequestT)
           /\ \A x \in DOMAIN reqs' : Sound(reqs'[x])
           /\ ds' \in [Sources -> SourceT] /\ \A s \in Sources : ds'[s].subject <= MaxSubject
<1> DEFINE a == reqs[r]
           n == IF a.item THEN a.told + 1 ELSE a.told
           e == [a EXCEPT !.at = "done", !.item = FALSE, !.told = n]
<1>1. /\ TypeInv /\ a \in RequestT /\ Sound(a) /\ reqs \in Seq(RequestT)
      /\ ds \in [Sources -> SourceT] /\ \A s \in Sources : ds[s].subject <= MaxSubject
  BY InvFacts, Typed
<1>2. a.told = 0 /\ a.item \in BOOLEAN /\ a.src \in Sources
  BY <1>1 DEF Sound, RequestT
<1>3. n = IF a.item THEN 1 ELSE 0
  BY <1>2
<1>4. reqs' = [reqs EXCEPT ![r] = e]
  BY <1>1, <1>2 DEF EndFailed
<1> HIDE DEF n
<1>5. n \in Nat
  BY <1>2, <1>3
<1>6. /\ e \in RequestT /\ e.src = a.src /\ e.at = "done" /\ e.item = FALSE /\ e.told = n
      /\ e.void = a.void
  BY <1>1, <1>5 DEF RequestT
<1> HIDE DEF e
<1>7. Sound(e)
  BY <1>1, <1>2, <1>3, <1>6 DEF Sound
<1>8. /\ Queues(m, l, jobs, heard, reqs') /\ reqs' \in Seq(RequestT)
      /\ \A x \in DOMAIN reqs' : Sound(reqs'[x])
  BY <1>4, <1>6, <1>7, OneReq
<1>9. ds' \in [Sources -> SourceT] /\ \A s \in Sources : ds'[s].subject <= MaxSubject
  <2>1. CASE a.item
    <3>1. ds' = [ds EXCEPT ![a.src] = Failed(ds[a.src])]
      BY <1>1, <1>2, <2>1 DEF EndFailed
    <3>2. Failed(ds[a.src]) \in SourceT /\ Failed(ds[a.src]).subject <= MaxSubject
      BY <1>1, <1>2, FailedType
    <3> HIDE DEF a
    <3> QED BY <1>1, <1>2, <3>1, <3>2, SourceType
  <2>2. CASE ~a.item
    BY <1>1, <2>2 DEF EndFailed
  <2> QED BY <2>1, <2>2
<1> QED BY <1>8, <1>9

LEMMA FailBlockStep == ASSUME IInv, FailBlock PROVE IInv'
<1> DEFINE r == Head(main).req
<1>1. /\ main' \in Seq(BlockT) /\ r \in DOMAIN reqs /\ BlockOK(Head(main), reqs)
      /\ Head(main).kind = "failed"
      /\ Queues(main', later, jobs, heard, reqs) /\ Idle(r, main', later, jobs)
  BY RunBlockFacts DEF FailBlock
<1>2. reqs[r].at = "ending"
  BY <1>1 DEF BlockOK, Ending
<1>3. UNCHANGED <<wants, later, jobs, cache, version, heard, last>> /\ EndFailed(r)
  BY DEF FailBlock
<1> HIDE DEF r
<1>4. /\ Queues(main', later, jobs, heard, reqs') /\ reqs' \in Seq(RequestT)
      /\ \A x \in DOMAIN reqs' : Sound(reqs'[x])
      /\ ds' \in [Sources -> SourceT] /\ \A s \in Sources : ds'[s].subject <= MaxSubject
  BY <1>1, <1>2, <1>3, EndFailedFacts
<1>5. TypeInv'
  BY <1>1, <1>3, <1>4, InvFacts, Typed, TypedAgain
<1> QED BY <1>3, <1>4, <1>5, InvAgain

LEMMA FailTimerStep == ASSUME IInv, FailTimer PROVE IInv'
<1> DEFINE r == Head(later).req
<1>1. /\ later' \in Seq(TimerT) /\ r \in DOMAIN reqs /\ TimerOK(Head(later), reqs)
      /\ Head(later).kind = "fail"
      /\ Queues(main, later', jobs, heard, reqs) /\ Idle(r, main, later', jobs)
  BY RunTimerFacts DEF FailTimer
<1>2. reqs[r].at = "ending"
  BY <1>1 DEF TimerOK
<1>3. UNCHANGED <<wants, main, jobs, cache, version, heard, last>> /\ EndFailed(r)
  BY DEF FailTimer
<1> HIDE DEF r
<1>4. /\ Queues(main, later', jobs, heard, reqs') /\ reqs' \in Seq(RequestT)
      /\ \A x \in DOMAIN reqs' : Sound(reqs'[x])
      /\ ds' \in [Sources -> SourceT] /\ \A s \in Sources : ds'[s].subject <= MaxSubject
  BY <1>1, <1>2, <1>3, EndFailedFacts
<1>5. TypeInv'
  BY <1>1, <1>3, <1>4, InvFacts, Typed, TypedAgain
<1> QED BY <1>3, <1>4, <1>5, InvAgain

LEMMA TimerType ==
    ASSUME NEW kind \in {"fail", "answer"}, NEW r \in Nat \ {0}
    PROVE  Timer(kind, r) \in TimerT /\ Timer(kind, r).kind = kind /\ Timer(kind, r).req = r
BY DEF Timer, TimerT

LEMMA TimeoutBlockStep == ASSUME IInv, TimeoutBlock PROVE IInv'
<1> DEFINE r == Head(main).req
           t == Timer("fail", r)
<1>1. /\ main' \in Seq(BlockT) /\ r \in DOMAIN reqs /\ BlockOK(Head(main), reqs)
      /\ Head(main).kind = "timeout"
      /\ Queues(main', later, jobs, heard, reqs) /\ Idle(r, main', later, jobs)
  BY RunBlockFacts DEF TimeoutBlock
<1>2. reqs[r].at = "ending"
  BY <1>1 DEF BlockOK, Ending
<1>3. /\ UNCHANGED <<ds, wants, reqs, jobs, cache, version, heard, last>>
      /\ later' = Append(later, t)
  BY DEF TimeoutBlock
<1> HIDE DEF r
<1>4. r \in Nat \ {0} /\ TypeInv
  BY <1>1, InvFacts, Typed
<1>5. t \in TimerT /\ t.kind = "fail" /\ t.req = r
  BY <1>4, TimerType
<1> HIDE DEF t
<1>6. TimerOK(t, reqs)
  BY <1>1, <1>2, <1>5 DEF TimerOK
<1>7. Queues(main', later', jobs, heard, reqs)
  BY <1>1, <1>3, <1>5, <1>6, LaterAppend
<1>8. TypeInv'
  <2>1. later' \in Seq(TimerT)
    BY <1>7 DEF Queues
  <2> QED BY <1>1, <1>3, <1>4, <2>1, Typed, TypedAgain
<1> QED BY <1>3, <1>7, <1>8, InvFacts, InvAgain

LEMMA LoadedBlockStep == ASSUME IInv, LoadedBlock PROVE IInv'
<1> DEFINE r == Head(main).req
           a == reqs[r]
           e == [a EXCEPT !.at = "done", !.item = FALSE]
           t == Timer("answer", r)
<1>1. /\ main' \in Seq(BlockT) /\ r \in DOMAIN reqs /\ BlockOK(Head(main), reqs)
      /\ Head(main).kind = "loaded"
      /\ Queues(main', later, jobs, heard, reqs) /\ Idle(r, main', later, jobs)
  BY RunBlockFacts DEF LoadedBlock
<1>2. a.at = "ending"
  BY <1>1 DEF BlockOK, Ending
<1>3. /\ TypeInv /\ a \in RequestT /\ Sound(a) /\ reqs \in Seq(RequestT) /\ r \in Nat \ {0}
  BY <1>1, InvFacts, Typed
<1>4. /\ UNCHANGED <<ds, wants, jobs, cache, version, heard, last>>
      /\ reqs' = [reqs EXCEPT ![r] = e]
      /\ later' = IF a.item THEN Append(later, t) ELSE later
  BY <1>3 DEF LoadedBlock
<1> HIDE DEF r
<1>5. /\ e \in RequestT /\ e.src = a.src /\ e.at = "done" /\ e.item = FALSE
      /\ e.told = a.told /\ e.void = a.void
  BY <1>3 DEF RequestT
<1>6. t \in TimerT /\ t.kind = "answer" /\ t.req = r
  BY <1>3, TimerType
<1> HIDE DEF e, t
<1>7. a.told = 0 /\ Sound(e)
  BY <1>2, <1>3, <1>5 DEF Sound
<1>8. /\ Queues(main', later, jobs, heard, reqs') /\ reqs' \in Seq(RequestT)
      /\ DOMAIN reqs' = DOMAIN reqs /\ reqs'[r] = e
      /\ \A x \in DOMAIN reqs' : Sound(reqs'[x])
  BY <1>1, <1>4, <1>5, <1>7, OneReq
<1>9. Queues(main', later', jobs', heard', reqs')
  <2>1. CASE a.item
    <3>1. ~a.void
      BY <1>3, <2>1 DEF Sound
    <3>2. TimerOK(t, reqs')
      BY <1>1, <1>5, <1>6, <1>7, <1>8, <3>1 DEF TimerOK, Due
    <3>3. Queues(main', Append(later, t), jobs, heard, reqs')
      BY <1>1, <1>6, <1>8, <3>2, LaterAppend
    <3> QED BY <1>4, <2>1, <3>3
  <2>2. CASE ~a.item
    BY <1>4, <1>8, <2>2
  <2> QED BY <2>1, <2>2
<1>10. TypeInv'
  <2>1. later' \in Seq(TimerT)
    BY <1>9 DEF Queues
  <2> QED BY <1>1, <1>3, <1>4, <1>8, <2>1, Typed, TypedAgain
<1> QED BY <1>8, <1>9, <1>10, InvAgain

\* An answer that was due is given.
LEMMA Told ==
    ASSUME NEW a \in RequestT, Sound(a), Due(a), NEW e, e = [a EXCEPT !.told = a.told + 1]
    PROVE  e \in RequestT /\ e.src = a.src /\ Sound(e)
<1>1. /\ a.told = 0 /\ a.at = "done" /\ ~a.void /\ ~a.item
  BY DEF Due, Sound
<1>2. e = [a EXCEPT !.told = 1]
  BY <1>1
<1>3. e \in RequestT /\ e.src = a.src
  BY <1>2 DEF RequestT
<1>4. e.told = 1 /\ e.at = a.at /\ e.void = a.void /\ e.item = a.item
  BY <1>2 DEF RequestT
<1> QED BY <1>1, <1>3, <1>4 DEF Sound

LEMMA RefuseTimerStep == ASSUME IInv, RefuseTimer PROVE IInv'
<1> DEFINE r == Head(later).req
           a == reqs[r]
           e == [a EXCEPT !.told = a.told + 1]
           d == Failed(ds[a.src])
<1>1. /\ later' \in Seq(TimerT) /\ r \in DOMAIN reqs /\ TimerOK(Head(later), reqs)
      /\ Head(later).kind = "answer"
      /\ Queues(main, later', jobs, heard, reqs) /\ Idle(r, main, later', jobs)
  BY RunTimerFacts DEF RefuseTimer
<1>2. /\ TypeInv /\ a \in RequestT /\ Sound(a) /\ reqs \in Seq(RequestT)
      /\ ds \in [Sources -> SourceT] /\ \A s \in Sources : ds[s].subject <= MaxSubject
  BY <1>1, InvFacts, Typed
<1>3. a.src \in Sources
  BY <1>2 DEF RequestT
<1>4. /\ UNCHANGED <<wants, main, jobs, cache, version, heard, last>>
      /\ reqs' = [reqs EXCEPT ![r] = e] /\ ds' = [ds EXCEPT ![a.src] = d]
  BY <1>2, <1>3 DEF RefuseTimer
<1>5. Due(a)
  BY <1>1 DEF TimerOK
<1>6. e \in RequestT /\ e.src = a.src /\ Sound(e)
  BY <1>2, <1>5, Told
<1>7. d \in SourceT /\ d.subject <= MaxSubject
  BY <1>2, <1>3, FailedType
<1> HIDE DEF d, e
<1>8. ds' \in [Sources -> SourceT] /\ \A s \in Sources : ds'[s].subject <= MaxSubject
  <2> HIDE DEF a
  <2> QED BY <1>2, <1>3, <1>4, <1>7, SourceType
<1> HIDE DEF r
<1>9. /\ Queues(main, later', jobs, heard, reqs') /\ reqs' \in Seq(RequestT)
      /\ \A x \in DOMAIN reqs' : Sound(reqs'[x])
  BY <1>1, <1>4, <1>6, OneReq
<1>10. TypeInv'
  BY <1>1, <1>2, <1>4, <1>8, <1>9, Typed, TypedAgain
<1> QED BY <1>4, <1>9, <1>10, InvAgain

LEMMA JobType ==
    ASSUME NEW kind \in {"read", "write", "tell"}, NEW r \in Nat \ {0}, NEW k \in Keys
    PROVE  /\ Job(kind, r, k) \in JobT
           /\ Job(kind, r, k).kind = kind /\ Job(kind, r, k).req = r
BY DEF Job, JobT

LEMMA AnswerTimerStep == ASSUME IInv, AnswerTimer PROVE IInv'
<1> DEFINE r == Head(later).req
           a == reqs[r]
           d == ds[a.src]
           k == Key(a.src, d.subject)
           w == Job("write", r, k)
           t == Job("tell", r, k)
           first == d.pageIndex = 1
<1>1. /\ later' \in Seq(TimerT) /\ r \in DOMAIN reqs /\ TimerOK(Head(later), reqs)
      /\ Head(later).kind = "answer"
      /\ Queues(main, later', jobs, heard, reqs) /\ Idle(r, main, later', jobs)
  BY RunTimerFacts DEF AnswerTimer
<1>2. /\ TypeInv /\ a \in RequestT /\ r \in Nat \ {0} /\ jobs \in Seq(JobT)
  BY <1>1, InvFacts, Typed
<1>3. a.src \in Sources
  BY <1>2 DEF RequestT
<1>4. d.subject \in Nat \ {0} /\ d.subject <= MaxSubject
  BY <1>2, <1>3, Typed
<1>5. k \in Keys
  BY <1>3, <1>4, KeyType
<1>6. /\ UNCHANGED <<ds, wants, reqs, main, cache, version, heard, last>>
      /\ jobs' = jobs \o (IF first THEN <<w>> ELSE <<>>) \o <<t>>
  BY DEF AnswerTimer
<1>7. Due(a)
  BY <1>1 DEF TimerOK
<1> HIDE DEF r, k
<1>8. /\ w \in JobT /\ w.kind = "write" /\ w.req = r
      /\ t \in JobT /\ t.kind = "tell" /\ t.req = r
  BY <1>2, <1>5, JobType
<1> HIDE DEF w, t
<1>9. JobOK(w, reqs) /\ JobOK(t, reqs)
  BY <1>1, <1>7, <1>8 DEF JobOK
<1>10. ASSUME NEW j \in Seq(JobT), Queues(main, later', j, heard, reqs),
              Idle(r, main, later', j)
       PROVE  Queues(main, later', Append(j, t), heard, reqs)
  BY <1>8, <1>9, <1>10, JobsAppend
<1>11. Queues(main', later', jobs', heard', reqs')
  <2>1. CASE first
    <3> DEFINE j == Append(jobs, w)
    <3>1. jobs' = Append(j, t) /\ j \in Seq(JobT)
      <4>1. jobs' = (jobs \o <<w>>) \o <<t>>
        BY <1>6, <2>1
      <4>2. j = jobs \o <<w>> /\ j \in Seq(JobT)
        BY <1>2, <1>8
      <4> HIDE DEF j
      <4> QED BY <1>8, <4>1, <4>2
    <3>2. Queues(main, later', j, heard, reqs)
      BY <1>1, <1>8, <1>9, JobsAppend
    <3>3. \A i \in DOMAIN j : (i \in DOMAIN jobs /\ j[i] = jobs[i]) \/ j[i] = w
      BY <1>2, <1>8, AppendFacts
    <3> HIDE DEF j
    <3>4. Idle(r, main, later', j)
      BY <1>1, <1>8, <3>3 DEF Idle
    <3> QED BY <1>6, <1>10, <3>1, <3>2, <3>4
  <2>2. CASE ~first
    <3>1. jobs' = Append(jobs, t)
      <4> HIDE DEF first
      <4> QED BY <1>2, <1>6, <1>8, <2>2
    <3> QED BY <1>1, <1>2, <1>6, <1>10, <3>1
  <2> QED BY <2>1, <2>2
<1>12. TypeInv'
  <2>1. jobs' \in Seq(JobT)
    BY <1>11 DEF Queues
  <2> QED BY <1>1, <1>2, <1>6, <2>1, Typed, TypedAgain
<1> QED BY <1>6, <1>11, <1>12, InvFacts, InvAgain

LEMMA CachedBlockStep == ASSUME IInv, CachedBlock PROVE IInv'
<1> DEFINE b == Head(main)
           s == reqs[b.req].src
           d == IF ds[s].dataChanged THEN Loaded(ds[s], <<>>, b.body) ELSE ds[s]
<1>1. /\ main' \in Seq(BlockT) /\ b.req \in DOMAIN reqs /\ b \in BlockT
      /\ Queues(main', later, jobs, heard, reqs)
  BY RunBlockFacts DEF CachedBlock
<1>2. /\ TypeInv /\ reqs[b.req] \in RequestT /\ ds \in [Sources -> SourceT]
      /\ \A x \in Sources : ds[x].subject <= MaxSubject
  BY <1>1, InvFacts, Typed
<1>3. s \in Sources /\ b.body \in Body \cup {NoBody}
  BY <1>1, <1>2 DEF RequestT, BlockT
<1>4. /\ UNCHANGED <<wants, reqs, later, jobs, cache, version, heard, last>>
      /\ ds' = [ds EXCEPT ![s] = d]
  BY <1>2, <1>3 DEF CachedBlock
<1> HIDE DEF b, s
<1>5. d \in SourceT /\ d.subject <= MaxSubject
  <2>1. <<>> \in Seq(Body)
    OBVIOUS
  <2> QED BY <1>2, <1>3, <2>1, LoadedType
<1> HIDE DEF d
<1>6. ds' \in [Sources -> SourceT] /\ \A x \in Sources : ds'[x].subject <= MaxSubject
  BY <1>2, <1>3, <1>4, <1>5, SourceType
<1>7. TypeInv'
  BY <1>1, <1>2, <1>4, <1>6, Typed, TypedAgain
<1> QED BY <1>1, <1>4, <1>7, InvFacts, InvAgain

LEMMA ArrivedType ==
    ASSUME TypeInv, NEW d \in SourceT, NEW r \in DOMAIN reqs
    PROVE  Arrived(d, r) \in SourceT /\ Arrived(d, r).subject = d.subject
<1> DEFINE e == [d EXCEPT !.loading = FALSE]
           l == IF d.pageIndex = 1 THEN <<>> ELSE d.list
<1>1. reqs[r] \in RequestT
  BY Typed
<1>2. reqs[r].body \in Body \cup {NoBody}
  BY <1>1 DEF RequestT
<1>3. e \in SourceT /\ e.subject = d.subject
  BY DEF SourceT
<1>4. l \in Seq(Body)
  BY DEF SourceT
<1>5. Arrived(d, r) = IF d.dataChanged \/ reqs[r].changed THEN Loaded(e, l, reqs[r].body) ELSE e
  BY DEF Arrived
<1> HIDE DEF e, l
<1> QED BY <1>2, <1>3, <1>4, <1>5, LoadedType

\* An answer is heard that is older than every read of the cache in any queue.
LEMMA Hearing ==
    ASSUME NEW m, NEW l, NEW j, NEW h, NEW q, Queues(m, l, j, h, q), NEW r \in DOMAIN q,
           NEW s \in Sources,
           \A i \in DOMAIN m : m[i].kind = "cached" => r < m[i].req,
           \A i \in DOMAIN j : j[i].kind = "read" => r < j[i].req
    PROVE  Queues(m, l, j, [h EXCEPT ![s] = IF r > h[s] THEN r ELSE h[s]], q)
<1> DEFINE n == IF r > h[s] THEN r ELSE h[s]
           g == [h EXCEPT ![s] = n]
<1>1. /\ m \in Seq(BlockT) /\ l \in Seq(TimerT) /\ j \in Seq(JobT) /\ h \in [Sources -> Nat]
      /\ q \in Seq(RequestT) /\ Carried(m, l, j, q) /\ Sole(m, l, j) /\ Ordered(m, j, h, q)
  BY DEF Queues
<1>2. /\ r \in Nat /\ r <= Len(q) /\ Len(q) \in Nat /\ n \in Nat
      /\ \A x \in Sources : h[x] \in Nat /\ h[x] <= Len(q)
  BY <1>1 DEF Ordered
<1>3. /\ g \in [Sources -> Nat]
      /\ \A x \in Sources : g[x] = h[x] \/ g[x] = r
  BY <1>1, <1>2
<1> HIDE DEF g, n
<1>4. \A x \in Sources : g[x] <= Len(q)
  BY <1>2, <1>3
<1>5. ASSUME NEW x \in Nat, x \in DOMAIN q, r < x, x > h[q[x].src]
      PROVE  x > g[q[x].src]
  <2>1. q[x] \in RequestT
    BY <1>1, <1>5
  <2>2. q[x].src \in Sources
    BY <2>1 DEF RequestT
  <2> QED BY <1>2, <1>3, <1>5, <2>2
<1>6. \A i \in DOMAIN m : m[i].kind = "cached" => m[i].req > g[q[m[i].req].src]
  <2>1. \A i \in DOMAIN m : m[i].req \in DOMAIN q /\ m[i].req \in Nat
    BY <1>1 DEF Carried, BlockOK
  <2> QED BY <1>1, <1>5, <2>1 DEF Ordered
<1>7. \A i \in DOMAIN j : j[i].kind = "read" => j[i].req > g[q[j[i].req].src]
  <2>1. \A i \in DOMAIN j : j[i].req \in DOMAIN q /\ j[i].req \in Nat
    BY <1>1 DEF Carried, JobOK
  <2> QED BY <1>1, <1>5, <2>1 DEF Ordered
<1>8. Ordered(m, j, g, q)
  BY <1>1, <1>4, <1>6, <1>7 DEF Ordered
<1>9. Queues(m, l, j, g, q)
  BY <1>1, <1>3, <1>8 DEF Queues
<1> QED BY <1>9 DEF g, n

LEMMA AnswerBlockStep == ASSUME IInv, AnswerBlock PROVE IInv'
<1> DEFINE r == Head(main).req
           a == reqs[r]
           s == a.src
           e == [a EXCEPT !.told = a.told + 1]
           d == Arrived(ds[s], r)
           g == [heard EXCEPT ![s] = IF r > heard[s] THEN r ELSE heard[s]]
<1>1. /\ main # <<>> /\ main' = Tail(main) /\ Head(main).kind = "answer"
      /\ main' \in Seq(BlockT) /\ r \in DOMAIN reqs /\ BlockOK(Head(main), reqs)
      /\ Queues(main', later, jobs, heard, reqs) /\ Idle(r, main', later, jobs)
  BY RunBlockFacts DEF AnswerBlock
<1>2. /\ TypeInv /\ a \in RequestT /\ Sound(a) /\ reqs \in Seq(RequestT) /\ r \in Nat \ {0}
      /\ ds \in [Sources -> SourceT] /\ \A x \in Sources : ds[x].subject <= MaxSubject
      /\ heard \in [Sources -> Nat] /\ last \in [Sources -> Body \cup {NoBody}]
      /\ Queues(main, later, jobs, heard, reqs)
  BY <1>1, InvFacts, Typed
<1>3. s \in Sources /\ a.body \in Body \cup {NoBody}
  BY <1>2 DEF RequestT
<1>4. /\ UNCHANGED <<wants, later, jobs, cache, version>>
      /\ reqs' = [reqs EXCEPT ![r] = e] /\ ds' = [ds EXCEPT ![s] = d] /\ heard' = g
  BY <1>2, <1>3 DEF AnswerBlock
<1>5. last' \in [Sources -> Body \cup {NoBody}]
  BY <1>2, <1>3 DEF AnswerBlock
<1>6. /\ \A i \in DOMAIN main' : main'[i].kind = "cached" => r < main'[i].req
      /\ \A i \in DOMAIN jobs : jobs[i].kind = "read" => r < jobs[i].req
  BY <1>1, <1>2, MainTail
<1>7. Due(a)
  BY <1>1 DEF BlockOK
<1>8. e \in RequestT /\ e.src = a.src /\ Sound(e)
  BY <1>2, <1>7, Told
<1>9. d \in SourceT /\ d.subject <= MaxSubject
  BY <1>1, <1>2, <1>3, ArrivedType
<1> HIDE DEF d, e
<1>10. /\ Queues(main', later, jobs, heard, reqs') /\ reqs' \in Seq(RequestT)
       /\ DOMAIN reqs' = DOMAIN reqs
       /\ \A x \in DOMAIN reqs' : Sound(reqs'[x])
  BY <1>1, <1>4, <1>8, OneReq
<1> HIDE DEF r, a, s
<1>11. Queues(main', later, jobs, g, reqs')
  BY <1>1, <1>3, <1>6, <1>10, Hearing
<1>12. ds' \in [Sources -> SourceT] /\ \A x \in Sources : ds'[x].subject <= MaxSubject
  BY <1>2, <1>3, <1>4, <1>9, SourceType
<1>13. heard' \in [Sources -> Nat]
  BY <1>4, <1>11 DEF Queues
<1>14. TypeInv'
  BY <1>1, <1>2, <1>4, <1>5, <1>10, <1>12, <1>13, Typed, TypedAgain
<1> QED BY <1>4, <1>10, <1>11, <1>14, InvAgain

-----------------------------------------------------------------------------
(* The serial queue.                                                       *)

LEMMA RunJobFacts ==
    ASSUME IInv, NEW kind, RunJob(kind)
    PROVE  /\ jobs' \in Seq(JobT) /\ Head(jobs).kind = kind /\ Head(jobs).req \in DOMAIN reqs
           /\ JobOK(Head(jobs), reqs) /\ Head(jobs) \in JobT
           /\ Queues(main, later, jobs', heard, reqs)
           /\ kind = "tell" =>
                 /\ Idle(Head(jobs).req, main, later, jobs')
                 /\ \A i \in DOMAIN jobs' :
                       jobs'[i].kind = "read" => Head(jobs).req < jobs'[i].req
           /\ kind = "read" =>
                 /\ Head(jobs).req > heard[reqs[Head(jobs).req].src]
                 /\ \A i \in DOMAIN main : main[i].kind = "answer" => main[i].req < Head(jobs).req
<1>1. Queues(main, later, jobs, heard, reqs)
  BY InvFacts
<1>2. jobs # <<>> /\ jobs' = Tail(jobs) /\ Head(jobs).kind = kind
  BY DEF RunJob
<1>3. Queues(main, later, Tail(jobs), heard, reqs) /\ JobOK(Head(jobs), reqs)
  BY <1>1, <1>2, JobsTail
<1> QED BY <1>1, <1>2, <1>3, JobsTail DEF Queues, JobOK

LEMMA BlockType ==
    ASSUME NEW kind \in {"start", "loaded", "failed", "timeout", "cached", "answer"},
           NEW r \in Nat \ {0}, NEW body \in Body \cup {NoBody}
    PROVE  /\ Block(kind, r, body) \in BlockT
           /\ Block(kind, r, body).kind = kind /\ Block(kind, r, body).req = r
BY DEF Block, BlockT

LEMMA ReadJobStep == ASSUME IInv, ReadJob PROVE IInv'
<1> DEFINE r == Head(jobs).req
           stored == cache[Head(jobs).key]
           b == Block("cached", r, stored)
<1>1. /\ jobs' \in Seq(JobT) /\ r \in DOMAIN reqs /\ Head(jobs) \in JobT
      /\ Queues(main, later, jobs', heard, reqs)
      /\ r > heard[reqs[r].src]
      /\ \A i \in DOMAIN main : main[i].kind = "answer" => main[i].req < r
  BY RunJobFacts DEF ReadJob
<1>2. /\ TypeInv /\ r \in Nat \ {0} /\ cache \in [Keys -> Body \cup {NoBody}]
  BY <1>1, InvFacts, Typed
<1>3. stored \in Body \cup {NoBody}
  BY <1>1, <1>2 DEF JobT
<1>4. /\ UNCHANGED <<ds, wants, reqs, later, cache, version, heard, last>>
      /\ main' = main \/ main' = Append(main, b)
  BY DEF ReadJob
<1> HIDE DEF r, stored
<1>5. b \in BlockT /\ b.kind = "cached" /\ b.req = r
  BY <1>2, <1>3, BlockType
<1> HIDE DEF b
<1>6. BlockOK(b, reqs)
  BY <1>1, <1>5 DEF BlockOK, Ending
<1>7. Queues(Append(main, b), later, jobs', heard, reqs)
  BY <1>1, <1>5, <1>6, MainAppend
<1>8. Queues(main', later, jobs', heard, reqs)
  BY <1>1, <1>4, <1>7
<1>9. TypeInv'
  <2>1. main' \in Seq(BlockT)
    BY <1>8 DEF Queues
  <2> QED BY <1>1, <1>2, <1>4, <2>1, Typed, TypedAgain
<1> QED BY <1>4, <1>8, <1>9, InvFacts, InvAgain

LEMMA WriteJobStep == ASSUME IInv, WriteJob PROVE IInv'
<1> DEFINE r == Head(jobs).req
           k == Head(jobs).key
           a == reqs[r]
           c == Changed(cache[k], a.body)
           e == [a EXCEPT !.changed = c]
<1>1. /\ jobs' \in Seq(JobT) /\ r \in DOMAIN reqs /\ Head(jobs) \in JobT
      /\ Queues(main, later, jobs', heard, reqs)
  BY RunJobFacts DEF WriteJob
<1>2. /\ TypeInv /\ a \in RequestT /\ Sound(a) /\ reqs \in Seq(RequestT)
      /\ cache \in [Keys -> Body \cup {NoBody}]
  BY <1>1, InvFacts, Typed
<1>3. k \in Keys /\ a.body \in Body \cup {NoBody}
  BY <1>1, <1>2 DEF JobT, RequestT
<1>4. /\ UNCHANGED <<ds, wants, main, later, version, heard, last>>
      /\ reqs' = [reqs EXCEPT ![r] = e] /\ cache' = [cache EXCEPT ![k] = a.body]
  BY <1>2 DEF WriteJob
<1>5. c \in BOOLEAN
  BY DEF Changed
<1> HIDE DEF r, k, c
<1>6. /\ e \in RequestT /\ e.src = a.src /\ e.at = a.at /\ e.told = a.told
      /\ e.item = a.item /\ e.void = a.void
  BY <1>2, <1>5 DEF RequestT
<1>7. Sound(e) /\ Follows(a, e)
  BY <1>2, <1>6 DEF Sound, Follows, Due
<1>8. /\ Queues(main, later, jobs', heard, reqs') /\ reqs' \in Seq(RequestT)
      /\ \A x \in DOMAIN reqs' : Sound(reqs'[x])
  <2> HIDE DEF e
  <2> QED BY <1>1, <1>4, <1>6, <1>7, OneReq
<1>9. cache' \in [Keys -> Body \cup {NoBody}]
  <2> HIDE DEF a
  <2> QED BY <1>2, <1>3, <1>4
<1>10. TypeInv'
  BY <1>1, <1>2, <1>4, <1>8, <1>9, Typed, TypedAgain
<1> QED BY <1>4, <1>8, <1>10, InvAgain

LEMMA TellJobStep == ASSUME IInv, TellJob PROVE IInv'
<1> DEFINE r == Head(jobs).req
           b == Block("answer", r, NoBody)
<1>1. /\ jobs' \in Seq(JobT) /\ r \in DOMAIN reqs /\ JobOK(Head(jobs), reqs)
      /\ Head(jobs).kind = "tell"
      /\ Queues(main, later, jobs', heard, reqs) /\ Idle(r, main, later, jobs')
      /\ \A i \in DOMAIN jobs' : jobs'[i].kind = "read" => r < jobs'[i].req
  BY RunJobFacts DEF TellJob
<1>2. TypeInv /\ r \in Nat \ {0}
  BY <1>1, InvFacts, Typed
<1>3. /\ UNCHANGED <<ds, wants, reqs, later, cache, version, heard, last>>
      /\ main' = Append(main, b)
  BY DEF TellJob
<1>4. Due(reqs[r])
  BY <1>1 DEF JobOK
<1> HIDE DEF r
<1>5. b \in BlockT /\ b.kind = "answer" /\ b.req = r
  BY <1>2, BlockType
<1> HIDE DEF b
<1>6. BlockOK(b, reqs)
  BY <1>1, <1>4, <1>5 DEF BlockOK, Ending
<1>7. Queues(main', later, jobs', heard, reqs)
  BY <1>1, <1>3, <1>5, <1>6, MainAppend
<1>8. TypeInv'
  <2>1. main' \in Seq(BlockT)
    BY <1>7 DEF Queues
  <2> QED BY <1>1, <1>2, <1>3, <2>1, Typed, TypedAgain
<1> QED BY <1>3, <1>7, <1>8, InvFacts, InvAgain

-----------------------------------------------------------------------------
(* The invariant holds.                                                    *)

LEMMA InitInv == ASSUME Init PROVE IInv
<1>1. /\ reqs = <<>> /\ main = <<>> /\ later = <<>> /\ jobs = <<>>
      /\ wants = [s \in Sources |-> 0] /\ heard = [s \in Sources |-> 0]
      /\ last = [s \in Sources |-> NoBody]
      /\ ds = [s \in Sources |-> NewSource] /\ version = 1
  BY DEF Init
<1>2. NewSource \in SourceT /\ NewSource.subject = 1 /\ 1 <= MaxSubject
  BY PageAssumption DEF NewSource, SourceT
<1>3. NoBody \in Body \cup {NoBody}
  OBVIOUS
<1> HIDE DEF NewSource
<1>4. cache \in [Keys -> Body \cup {NoBody}]
  <2>1. ASSUME NEW k \in Keys
        PROVE  cache[k] \in Body \cup {NoBody}
    BY DEF Init, Remembered, Body
  <2>2. cache \in [Keys -> UNION {Remembered(k) : k \in Keys}]
    BY DEF Init
  <2> QED BY <2>1, <2>2
<1>5. TypeInv
  BY <1>1, <1>2, <1>3, <1>4 DEF TypeInv, PagesTypeOK
<1>6. DOMAIN reqs = {} /\ DOMAIN main = {} /\ DOMAIN later = {} /\ DOMAIN jobs = {}
  BY <1>1
<1>7. \A s \in Sources : heard[s] <= Len(reqs)
  BY <1>1
<1>8. Good
  BY <1>6, <1>7 DEF Good, Carried, Sole, Ordered
<1> QED BY <1>5, <1>8 DEF IInv

LEMMA PublishStep == ASSUME IInv, Publish PROVE IInv'
<1>1. UNCHANGED <<ds, wants, reqs, main, later, jobs, cache, heard, last>>
  BY DEF Publish
<1>2. version' \in Nat \ {0}
  BY InvFacts, Typed DEF Publish
<1>3. TypeInv'
  BY <1>1, <1>2, InvFacts, Typed, TypedAgain
<1> QED BY <1>1, <1>3, InvFacts, InvAgain

LEMMA StutterStep == ASSUME IInv, UNCHANGED vars PROVE IInv'
<1>1. UNCHANGED <<ds, wants, reqs, main, later, jobs, cache, version, heard, last>>
  BY DEF vars
<1>2. TypeInv'
  BY <1>1, InvFacts, Typed, TypedAgain
<1> QED BY <1>1, <1>2, InvFacts, InvAgain

LEMMA NextInv == ASSUME IInv, [Next]_vars PROVE IInv'
<1>1. ASSUME NEW s \in Sources, Gesture(s) \/ LoadMore(s)
      PROVE  IInv'
  BY <1>1, RefreshStep, ScrollStep, RebindStep, LeaveStep, LoadMoreStep DEF Gesture
<1>2. CASE RunMain
  BY <1>2, StartHttpStep, FailBlockStep, TimeoutBlockStep, LoadedBlockStep, CachedBlockStep,
     AnswerBlockStep DEF RunMain
<1>3. CASE RunLater
  BY <1>3, FailTimerStep, RefuseTimerStep, AnswerTimerStep DEF RunLater
<1>4. CASE RunJobs
  BY <1>4, ReadJobStep, WriteJobStep, TellJobStep DEF RunJobs
<1>5. ASSUME NEW r \in DOMAIN reqs, StartOp(r) \/ EndOp(r)
      PROVE  IInv'
  BY <1>5, StartOpStep, EndOpStep
<1>6. CASE Publish
  BY <1>6, PublishStep
<1>7. CASE UNCHANGED vars
  BY <1>7, StutterStep
<1> QED BY <1>1, <1>2, <1>3, <1>4, <1>5, <1>6, <1>7 DEF Next

\* The queues carry a request once at most, and a read of the cache is newer
\* than every answer in front of it, whatever is asked, lost, late or cancelled.
THEOREM Inv == Spec => []IInv
<1>1. Init => IInv
  BY InitInv
<1>2. IInv /\ [Next]_vars => IInv'
  BY NextInv
<1> QED BY <1>1, <1>2, PTL DEF Spec

\* Every data source, request, block, timer and job keeps its type.
THEOREM PagesTypeCorrect == Spec => []PagesTypeOK
<1>1. IInv => PagesTypeOK
  BY DEF IInv, TypeInv
<1> QED BY <1>1, Inv, PTL

\* No request is answered twice, and one cancelled in time is not answered.
THEOREM OneAnswerAlways == Spec => []OneAnswer
<1>1. IInv => OneAnswer
  BY DEF IInv, Good, Sound, OneAnswer
<1> QED BY <1>1, Inv, PTL

\* No page read from the cache comes after the answer to its request or a newer
\* one.
THEOREM CacheBeforeAnswerAlways == Spec => []CacheBeforeAnswer
<1>1. IInv => CacheBeforeAnswer
  BY DEF IInv, Good, Ordered, CacheBeforeAnswer, Asker
<1> QED BY <1>1, Inv, PTL

-----------------------------------------------------------------------------
(* Orderly data sources.                                                   *)
(*                                                                         *)
(* Firm(s) is what a data source that is not stale, a reused cell among    *)
(* them, knows of its requests.  Lists(s) describes an orderly one between *)
(* what it asked for and what it was told, by sets that most steps leave   *)
(* alone: the requests that may still be answered, the first pages stored  *)
(* and about to be told, the reads of the cache under way, the pages that  *)
(* never came.                                                             *)

Plain == {s \in Sources : ~ds[s].stale}
Fine  == {s \in Sources : Orderly(s)}

\* No source that reads this template is stale.
Clean(u) == \A s \in Sources : Url[s] = u => s \in Plain

Address(s) == Key(s, 1)

Made(s) == {r \in DOMAIN reqs : reqs[r].src = s}
Open(s) == {r \in Made(s) : reqs[r].told = 0 /\ ~reqs[r].void}
Lost(s) == {p \in Nat : Missed(s, p)}

\* The answer to r has passed the serial queue, or is the next to pass it.
Answering(r) ==
    \/ \E b \in Range(main) : b.kind = "answer" /\ b.req = r
    \/ jobs # <<>> /\ Head(jobs).kind = "tell" /\ Head(jobs).req = r

Given(s) == {r \in Made(s) : reqs[r].page = 1 /\ Answering(r)}

Cached == {b \in Range(main) : b.kind = "cached"}
Reads  == {j \in Range(jobs) : j.kind = "read"}
Waiting(s) == {b \in Cached : reqs[b.req].src = s}
Reading(s) == {j \in Reads : reqs[j.req].src = s}

\* What a request asks for and what it got.
BodyOK(e) ==
    /\ e.body \in {NoBody, Junk} \/ (e.body.key = e.key /\ e.body.page = e.page)
    /\ e.at \in {"posted", "queued", "open"} => e.body = NoBody

Bodies(m, l, q) ==
    /\ \A r \in DOMAIN q : BodyOK(q[r])
    /\ \A b \in Range(m) : b.kind \in {"failed", "timeout"} => q[b.req].body = NoBody
    /\ \A t \in Range(l) : t.kind = "fail" => q[t.req].body = NoBody

\* What is stored is told next; and of the sources in F a first page is, under the
\* address it was asked for, and is not told before.
Pairs(j, q, F) ==
    /\ \A i \in DOMAIN j : j[i].kind = "write" =>
          i + 1 \in DOMAIN j /\ j[i + 1].kind = "tell" /\ j[i + 1].req = j[i].req
    /\ \A i \in DOMAIN j : j[i].kind = "write" /\ q[j[i].req].src \in F =>
          q[j[i].req].page = 1 /\ j[i].key = q[j[i].req].key
    /\ \A i \in DOMAIN j :
          j[i].kind = "tell" /\ q[j[i].req].src \in F /\ q[j[i].req].page = 1 /\ i # 1 =>
             j[i - 1].kind = "write" /\ j[i - 1].req = j[i].req

\* The serial queue works on addresses the data sources have or had.
Has(s, k) == \E n \in 1..ds[s].subject : k = Key(s, n)
Asked == \A j \in Range(jobs) : Has(reqs[j.req].src, j.key)

FirstPages ==
    /\ CacheIsFirstPage
    /\ \A b \in Cached :
          Clean(Url[Asker(b.req)]) /\ Items(b.body) # <<>> => b.body.page = 1

\* One request at most is open, the newest, for the page the data source is at.
Firm(s) ==
    /\ ds[s].shown /\ ~ds[s].loading => Open(s) = {}
    /\ \A r \in Open(s) :
          /\ reqs[r].page = ds[s].pageIndex /\ reqs[r].key = Key(s, ds[s].subject)
          /\ \A q \in Made(s) : q <= r

\* What the serial queue has not dealt with counts as changed.
Alone(s) == \A r \in Open(s) : r \notin Given(s) => reqs[r].changed

\* Nothing is stored that the data source has yet to be told.
Known(s) == \A r \in Given(s) : ~reqs[r].changed

Starts(list, body) == IF Items(body) = <<>> THEN list = <<>> ELSE list # <<>> /\ list[1] = body

\* What is stored, what is read of it, and what the list begins with.
Stored(s) ==
    LET c == cache[Address(s)]
    IN  /\ \A r \in Given(s) : reqs[r].body = c
        /\ Given(s) = {} => last[s] \in {NoBody, c}
        /\ Known(s) => \A b \in Waiting(s) : b.body = c
        /\ Known(s) /\ (ds[s].list # <<>> \/ ~ds[s].dataChanged) => Starts(ds[s].list, c)

\* A list to be replaced is, before another page can be put behind it.
Pending(s) ==
    /\ ds[s].dataChanged /\ ds[s].list # <<>> => Waiting(s) \cup Reading(s) # {}
    /\ last[s] # NoBody /\ ds[s].list = <<>> => ~ds[s].dataChanged

Gap(a, b, lost) == \A p \in (a + 1)..(b - 1) : p \in lost

Order(list, lost) ==
    /\ \A i \in DOMAIN list : list[i].page >= 1
    /\ list # <<>> => list[1].page = 1
    /\ \A i \in DOMAIN list \ {1} :
          list[i - 1].page < list[i].page /\ Gap(list[i - 1].page, list[i].page, lost)

\* The page the list ends with, once what is read of the cache has replaced it.
LastPage(d) == IF d.dataChanged THEN 1 ELSE d.list[Len(d.list)].page

Place(d, open, lost) ==
    /\ LastPage(d) <= d.pageIndex /\ Gap(LastPage(d), d.pageIndex, lost)
    /\ open # {} /\ d.pageIndex # 1 => LastPage(d) < d.pageIndex
    /\ open = {} /\ d.shown /\ (d.hasMore \/ d.dataChanged)
          => d.pageIndex = LastPage(d) \/ d.pageIndex \in lost

\* The list, and where the data source is behind it.
Listed(s) ==
    /\ ds[s].hasMore \/ ds[s].pageIndex # 1 => ds[s].list # <<>>
    /\ Order(ds[s].list, Lost(s))
    /\ ds[s].list # <<>> => Place(ds[s], Open(s), Lost(s))

Lists(s) == Alone(s) /\ Stored(s) /\ Pending(s) /\ Listed(s)

Calm ==
    /\ Bodies(main, later, reqs) /\ Pairs(jobs, reqs, Plain) /\ Asked /\ FirstPages
    /\ \A s \in Plain : Firm(s)
    /\ \A s \in Fine : Lists(s)

-----------------------------------------------------------------------------
(* What was stale stays so.                                                *)

Sticky ==
    \A s \in Sources :
        /\ ds[s].stale => ds'[s].stale
        /\ ds'[s].subject \in Nat /\ ds[s].subject <= ds'[s].subject

\* One data source is changed.
LEMMA StickyOne ==
    ASSUME IInv, NEW s \in Sources, NEW d, ds' = [ds EXCEPT ![s] = d],
           ds[s].stale => d.stale, d.subject \in Nat, ds[s].subject <= d.subject
    PROVE  Sticky
<1>1. ds \in [Sources -> SourceT] /\ \A t \in Sources : ds[t].subject \in Nat
  BY InvFacts, Typed DEF SourceT
<1>2. ds'[s] = d /\ \A t \in Sources : t # s => ds'[t] = ds[t]
  BY <1>1
<1> QED BY <1>1, <1>2 DEF Sticky

LEMMA StickyKept ==
    ASSUME IInv, NEW s \in Sources, NEW d, ds' = [ds EXCEPT ![s] = d],
           d.stale = ds[s].stale, d.subject = ds[s].subject
    PROVE  Sticky
<1>1. ds[s].subject \in Nat
  BY InvFacts, Typed DEF SourceT
<1>2. d.subject \in Nat /\ ds[s].subject <= d.subject
  BY <1>1
<1>3. ds[s].stale => d.stale
  OBVIOUS
<1> QED BY <1>2, <1>3, StickyOne

LEMMA StickySame == ASSUME IInv, UNCHANGED ds PROVE Sticky
<1>1. \A t \in Sources : ds[t].subject \in Nat
  BY InvFacts, Typed DEF SourceT
<1> QED BY <1>1 DEF Sticky

LEMMA StickyFailed ==
    ASSUME IInv, NEW s \in Sources, ds' = [ds EXCEPT ![s] = Failed(ds[s])]
    PROVE  Sticky
<1>1. ds[s] \in SourceT /\ ds[s].subject \in Nat
  BY InvFacts, Typed DEF SourceT
<1>2. Failed(ds[s]).stale = ds[s].stale /\ Failed(ds[s]).subject = ds[s].subject
  BY <1>1 DEF Failed, SourceT
<1> QED BY <1>1, <1>2, StickyKept

LEMMA StickyLoaded ==
    ASSUME IInv, NEW s \in Sources, NEW list, NEW b, NEW c \in BOOLEAN,
           NEW d, d = [ds[s] EXCEPT !.loading = c],
           ds' = [ds EXCEPT ![s] = Loaded(d, list, b)] \/ ds' = [ds EXCEPT ![s] = d]
    PROVE  Sticky
<1>1. ds[s] \in SourceT /\ ds[s].subject \in Nat
  BY InvFacts, Typed DEF SourceT
<1>2. d \in SourceT /\ d.stale = ds[s].stale /\ d.subject = ds[s].subject
  BY <1>1 DEF SourceT
<1>3. Loaded(d, list, b).stale = d.stale /\ Loaded(d, list, b).subject = d.subject
  BY <1>2 DEF Loaded, SourceT
<1>4. CASE ds' = [ds EXCEPT ![s] = Loaded(d, list, b)]
  BY <1>2, <1>3, <1>4, StickyKept
<1>5. CASE ds' = [ds EXCEPT ![s] = d]
  BY <1>2, <1>5, StickyKept
<1> QED BY <1>4, <1>5

LEMMA StickyGesture ==
    ASSUME IInv, NEW s \in Sources, Gesture(s) \/ LoadMore(s)
    PROVE  Sticky
<1>1. ds \in [Sources -> SourceT] /\ ds[s] \in SourceT /\ ds[s].subject \in Nat
  BY InvFacts, Typed DEF SourceT
<1>2. CASE Refresh(s)
  <2>1. ds' = [ds EXCEPT ![s] = Reloaded(ds[s])]
    BY <1>2 DEF Refresh, Submit
  <2>2. Reloaded(ds[s]).stale = ds[s].stale /\ Reloaded(ds[s]).subject = ds[s].subject
    BY <1>1 DEF Reloaded, SourceT
  <2> QED BY <2>1, <2>2, StickyKept
<1>3. CASE Scroll(s)
  BY <1>3, StickySame DEF Scroll
<1>4. CASE Rebind(s)
  <2>1. PICK d \in SourceT : /\ Submit(s, d, Dropped(s)) /\ d.subject = ds[s].subject + 1
                             /\ d.stale = (ds[s].stale \/ Awaited(s, Dropped(s)))
    BY <1>4, RebindFacts
  <2>2. ds' = [ds EXCEPT ![s] = d]
    BY <2>1 DEF Submit
  <2>3. d.subject \in Nat /\ ds[s].subject <= d.subject
    BY <1>1, <2>1
  <2>4. ds[s].stale => d.stale
    BY <2>1
  <2> QED BY <2>2, <2>3, <2>4, StickyOne
<1>5. CASE Leave(s)
  <2> DEFINE d == [ds[s] EXCEPT !.shown = FALSE, !.loading = FALSE]
  <2>1. ds' = [ds EXCEPT ![s] = d]
    BY <1>1, <1>5 DEF Leave
  <2>2. d.stale = ds[s].stale /\ d.subject = ds[s].subject
    BY <1>1 DEF SourceT
  <2> HIDE DEF d
  <2> QED BY <2>1, <2>2, StickyKept
<1>6. CASE LoadMore(s)
  <2>1. PICK d \in SourceT : /\ Submit(s, d, reqs) /\ d.subject = ds[s].subject
                             /\ d.stale = (ds[s].stale \/ ~MayLoadMore(ds[s]))
    BY <1>6, LoadMoreFacts
  <2>2. ds' = [ds EXCEPT ![s] = d]
    BY <2>1 DEF Submit
  <2>3. d.subject \in Nat /\ ds[s].subject <= d.subject
    BY <1>1, <2>1
  <2>4. ds[s].stale => d.stale
    BY <2>1
  <2> QED BY <2>2, <2>3, <2>4, StickyOne
<1> QED BY <1>2, <1>3, <1>4, <1>5, <1>6 DEF Gesture

LEMMA StickyTold ==
    ASSUME IInv, FailBlock \/ FailTimer \/ RefuseTimer \/ CachedBlock \/ AnswerBlock
    PROVE  Sticky
<1>1. \A r \in DOMAIN reqs : reqs[r].src \in Sources
  BY InvFacts, Typed DEF RequestT
<1>2. ASSUME NEW r \in DOMAIN reqs, EndFailed(r)
      PROVE  Sticky
  <2> DEFINE s == reqs[r].src
  <2>1. s \in Sources
    BY <1>1
  <2>2. ds' = [ds EXCEPT ![s] = Failed(ds[s])] \/ ds' = ds
    BY <1>2 DEF EndFailed
  <2> HIDE DEF s
  <2> QED BY <2>1, <2>2, StickyFailed, StickySame
<1>3. CASE FailBlock
  <2>1. Head(main).req \in DOMAIN reqs /\ EndFailed(Head(main).req)
    BY <1>3, RunBlockFacts DEF FailBlock
  <2> QED BY <1>2, <2>1
<1>4. CASE FailTimer
  <2>1. Head(later).req \in DOMAIN reqs /\ EndFailed(Head(later).req)
    BY <1>4, RunTimerFacts DEF FailTimer
  <2> QED BY <1>2, <2>1
<1>5. CASE RefuseTimer
  <2> DEFINE s == reqs[Head(later).req].src
  <2>1. s \in Sources
    BY <1>1, <1>5, RunTimerFacts DEF RefuseTimer
  <2>2. ds' = [ds EXCEPT ![s] = Failed(ds[s])]
    BY <1>5 DEF RefuseTimer
  <2> HIDE DEF s
  <2> QED BY <2>1, <2>2, StickyFailed
<1>6. CASE CachedBlock
  <2> DEFINE s == reqs[Head(main).req].src
             b == Head(main).body
  <2>1. s \in Sources
    BY <1>1, <1>6, RunBlockFacts DEF CachedBlock
  <2>2. ds' = [ds EXCEPT ![s] = IF ds[s].dataChanged THEN Loaded(ds[s], <<>>, b) ELSE ds[s]]
    BY <1>6 DEF CachedBlock
  <2> HIDE DEF s, b
  <2>3. /\ ds[s] \in SourceT /\ ds[s].loading \in BOOLEAN
        /\ ds[s] = [ds[s] EXCEPT !.loading = ds[s].loading]
    BY <2>1, InvFacts, Typed DEF SourceT
  <2>4. ds' = [ds EXCEPT ![s] = Loaded(ds[s], <<>>, b)] \/ ds' = [ds EXCEPT ![s] = ds[s]]
    BY <2>2
  <2> QED BY <2>1, <2>3, <2>4, StickyLoaded
<1>7. CASE AnswerBlock
  <2> DEFINE r == Head(main).req
             s == reqs[r].src
             d == [ds[s] EXCEPT !.loading = FALSE]
             list == IF ds[s].pageIndex = 1 THEN <<>> ELSE ds[s].list
             a == Arrived(ds[s], r)
  <2>1. s \in Sources
    BY <1>1, <1>7, RunBlockFacts DEF AnswerBlock
  <2>2. ds' = [ds EXCEPT ![s] = a]
    BY <1>7 DEF AnswerBlock
  <2>4. a = Loaded(d, list, reqs[r].body) \/ a = d
    BY DEF Arrived
  <2>3. d = [ds[s] EXCEPT !.loading = FALSE]
    OBVIOUS
  <2> HIDE DEF r, s, list, d, a
  <2> QED BY <2>1, <2>2, <2>3, <2>4, StickyLoaded
<1> QED BY <1>3, <1>4, <1>5, <1>6, <1>7

LEMMA NextSticky == ASSUME IInv, [Next]_vars PROVE Sticky
<1>1. CASE StartHttp \/ TimeoutBlock \/ LoadedBlock \/ AnswerTimer \/ RunJobs \/ Publish
  <2>1. StartHttp \/ TimeoutBlock \/ Publish => ds' = ds
    BY DEF StartHttp, TimeoutBlock, Publish
  <2>4. LoadedBlock => ds' = ds
    BY DEF LoadedBlock
  <2>2. AnswerTimer => ds' = ds
    BY DEF AnswerTimer
  <2>3. RunJobs => ds' = ds
    BY DEF RunJobs, ReadJob, WriteJob, TellJob
  <2> QED BY <1>1, <2>1, <2>2, <2>3, <2>4, StickySame
<1>2. ASSUME NEW r \in DOMAIN reqs, StartOp(r) \/ EndOp(r)
      PROVE  Sticky
  BY <1>2, StickySame DEF StartOp, EndOp, Answer, Break, Timeout
<1>3. CASE UNCHANGED vars
  BY <1>3, StickySame DEF vars
<1> QED BY <1>1, <1>2, <1>3, StickyGesture, StickyTold DEF Next, RunMain, RunLater

\* Which sources are plain and orderly after a step.
LEMMA StickyFacts ==
    ASSUME IInv, Sticky
    PROVE  /\ Plain' \subseteq Plain /\ Fine' \subseteq Fine
           /\ Fine \subseteq Plain /\ Fine' \subseteq Plain'
           /\ \A u : Clean(u)' => Clean(u)
           /\ \A s \in Fine : ds[s].subject = 1 /\ Clean(Url[s])
           /\ \A s \in Fine : \A t \in Sources : Url[t] = Url[s] => t = s
<1>1. \A s \in Sources : ds[s].subject \in Nat \ {0}
  BY InvFacts, Typed DEF SourceT
<1>2. Plain' \subseteq Plain
  BY DEF Plain, Sticky
<1>3. ASSUME NEW s \in Fine'
      PROVE  s \in Fine
  <2>1. s \in Sources /\ ~ds'[s].stale /\ ds'[s].subject = 1
        /\ \A t \in Sources : Url[t] = Url[s] => t = s
    BY <1>3 DEF Fine, Orderly
  <2>2. ~ds[s].stale /\ ds[s].subject = 1
    BY <1>1, <2>1 DEF Sticky
  <2> QED BY <2>1, <2>2 DEF Fine, Orderly
<1>4. Fine \subseteq Plain /\ Fine' \subseteq Plain'
  BY DEF Fine, Plain, Orderly
<1>5. \A u : Clean(u)' => Clean(u)
  BY <1>2 DEF Clean
<1>6. /\ \A s \in Fine : ds[s].subject = 1
      /\ \A s \in Fine : \A t \in Sources : Url[t] = Url[s] => t = s
  BY DEF Fine, Orderly
<1>7. \A s \in Fine : Clean(Url[s])
  BY <1>4, <1>6 DEF Clean
<1> QED BY <1>2, <1>3, <1>4, <1>5, <1>6, <1>7

-----------------------------------------------------------------------------
(* The queues as sets.                                                     *)

LEMMA TailRange ==
    ASSUME NEW S, NEW m \in Seq(S), m # <<>>
    PROVE  Range(m) = Range(Tail(m)) \cup {Head(m)}
<1> DEFINE t == Tail(m)
           b == Head(m)
<1>1. /\ m[1] = b /\ 1 \in DOMAIN m
      /\ \A i \in DOMAIN t : i + 1 \in DOMAIN m /\ t[i] = m[i + 1]
      /\ \A i \in DOMAIN m : i = 1 \/ (i - 1 \in DOMAIN t /\ t[i - 1] = m[i])
  OBVIOUS
<1> HIDE DEF t, b
<1>2. Range(m) = Range(t) \cup {b}
  BY <1>1 DEF Range
<1> QED BY <1>2 DEF t, b

LEMMA AppendRange ==
    ASSUME NEW S, NEW m \in Seq(S), NEW b \in S
    PROVE  Range(Append(m, b)) = Range(m) \cup {b}
<1> DEFINE a == Append(m, b)
           n == Len(m) + 1
<1>1. /\ a[n] = b /\ n \in DOMAIN a
      /\ \A i \in DOMAIN m : i \in DOMAIN a /\ a[i] = m[i]
      /\ \A i \in DOMAIN a : i \in DOMAIN m \/ i = n
  OBVIOUS
<1> HIDE DEF a, n
<1>2. Range(a) = Range(m) \cup {b}
  BY <1>1 DEF Range
<1> QED BY <1>2 DEF a

LEMMA HeadRange ==
    ASSUME NEW S, NEW m \in Seq(S), m # <<>>
    PROVE  Head(m) \in Range(m)
BY TailRange

\* What the elements of the queues are about.
LEMMA Elements ==
    ASSUME IInv
    PROVE  /\ \A b \in Range(main) :
                 /\ b \in BlockT /\ b.req \in DOMAIN reqs /\ BlockOK(b, reqs)
           /\ \A t \in Range(later) : t \in TimerT /\ t.req \in DOMAIN reqs /\ TimerOK(t, reqs)
           /\ \A j \in Range(jobs) : j \in JobT /\ j.req \in DOMAIN reqs /\ JobOK(j, reqs)
           /\ \A r \in DOMAIN reqs : Answering(r) => Due(reqs[r])
<1>1. Queues(main, later, jobs, heard, reqs)
  BY InvFacts
<1>2. /\ main \in Seq(BlockT) /\ later \in Seq(TimerT) /\ jobs \in Seq(JobT)
      /\ Carried(main, later, jobs, reqs)
  BY <1>1 DEF Queues
<1>3. ASSUME NEW b \in Range(main)
      PROVE  b \in BlockT /\ b.req \in DOMAIN reqs /\ BlockOK(b, reqs)
  <2>1. PICK i \in DOMAIN main : b = main[i]
    BY DEF Range
  <2> QED BY <1>2, <2>1 DEF Carried, BlockOK
<1>4. ASSUME NEW t \in Range(later)
      PROVE  t \in TimerT /\ t.req \in DOMAIN reqs /\ TimerOK(t, reqs)
  <2>1. PICK i \in DOMAIN later : t = later[i]
    BY DEF Range
  <2> QED BY <1>2, <2>1 DEF Carried, TimerOK
<1>5. ASSUME NEW j \in Range(jobs)
      PROVE  j \in JobT /\ j.req \in DOMAIN reqs /\ JobOK(j, reqs)
  <2>1. PICK i \in DOMAIN jobs : j = jobs[i]
    BY DEF Range
  <2> QED BY <1>2, <2>1 DEF Carried, JobOK
<1>6. ASSUME NEW r \in DOMAIN reqs, Answering(r)
      PROVE  Due(reqs[r])
  <2>1. CASE \E b \in Range(main) : b.kind = "answer" /\ b.req = r
    BY <1>3, <2>1 DEF BlockOK
  <2>2. CASE jobs # <<>> /\ Head(jobs).kind = "tell" /\ Head(jobs).req = r
    <3>1. Head(jobs) \in Range(jobs)
      BY <1>2, <2>2, HeadRange
    <3> QED BY <1>5, <2>2, <3>1 DEF JobOK
  <2> QED BY <1>6, <2>1, <2>2 DEF Answering
<1> QED BY <1>3, <1>4, <1>5, <1>6

\* Once no request is open, or when the open one is about to be told.
LEMMA AloneStays == ASSUME NEW s, Open(s)' = {} PROVE Alone(s)'
BY DEF Alone

LEMMA AloneAnswering ==
    ASSUME NEW s, NEW r, Open(s)' = {r}, r \in Given(s)'
    PROVE  Alone(s)'
BY DEF Alone

\* A list that was replaced or grew, and one left as it was.
LEMMA ListedAnew ==
    ASSUME NEW s, NEW d, ds'[s] = d, Open(s)' = {}, Lost(s)' = Lost(s),
           d.hasMore \/ d.pageIndex # 1 => d.list # <<>>,
           Order(d.list, Lost(s)), d.list # <<>> => Place(d, {}, Lost(s))
    PROVE  Listed(s)'
BY DEF Listed, Order, Place, Gap, LastPage

LEMMA ListedStays ==
    ASSUME NEW s, Listed(s), ds'[s] = ds[s], Open(s)' = Open(s), Lost(s)' = Lost(s)
    PROVE  Listed(s)'
BY DEF Listed, Order, Place, Gap, LastPage

\* An answer the serial queue has passed is that of an open request.
LEMMA GivenOpen == ASSUME IInv, NEW s PROVE Given(s) \subseteq Open(s)
BY Elements DEF Given, Made, Open, Due

\* A block leaves the main queue.
LEMMA MainTailSets ==
    ASSUME IInv, NEW kind, RunBlock(kind), UNCHANGED jobs
    PROVE  /\ kind # "cached" => Cached' = Cached
           /\ kind = "cached" => Cached = Cached' \cup {Head(main)}
           /\ kind # "answer" => \A r : Answering(r)' <=> Answering(r)
           /\ kind = "answer" =>
                 /\ \A r : r = Head(main).req => ~Answering(r)'
                 /\ \A r : Answering(r) <=> (Answering(r)' \/ r = Head(main).req)
<1> DEFINE b == Head(main)
<1>1. /\ main # <<>> /\ main' = Tail(main) /\ main' \in Seq(BlockT) /\ b.kind = kind
      /\ kind # "cached" => Idle(b.req, main', later, jobs)
  BY RunBlockFacts
<1>2. main \in Seq(BlockT) /\ jobs \in Seq(JobT)
  BY InvFacts DEF Queues
<1>3. Range(main) = Range(main') \cup {b}
  BY <1>1, <1>2, TailRange
<1>4. jobs' = jobs
  OBVIOUS
<1>5. ASSUME kind = "answer", NEW r, r = b.req
      PROVE  ~Answering(r)'
  <2>1. \A x \in Range(main') : x.kind # "cached" => x.req # b.req
    BY <1>1, <1>5 DEF Idle, Range
  <2>2. \A x \in Range(jobs) : x.kind = "tell" => x.req # b.req
    BY <1>1, <1>5 DEF Idle, Range
  <2>3. jobs # <<>> => Head(jobs) \in Range(jobs)
    BY <1>2, HeadRange
  <2> HIDE DEF b
  <2> QED BY <1>4, <1>5, <2>1, <2>2, <2>3 DEF Answering
<1> HIDE DEF b
<1>6. /\ kind # "cached" => Cached' = Cached
      /\ kind = "cached" => Cached = Cached' \cup {b}
  BY <1>1, <1>3 DEF Cached
<1>7. /\ kind # "answer" => \A r : Answering(r)' <=> Answering(r)
      /\ kind = "answer" => \A r : Answering(r) <=> (Answering(r)' \/ r = b.req)
  BY <1>1, <1>3, <1>4 DEF Answering
<1> QED BY <1>5, <1>6, <1>7 DEF b

\* A block that is neither a cached page nor an answer joins it.
LEMMA MainAppendSets ==
    ASSUME IInv, NEW b \in BlockT, b.kind \notin {"cached", "answer"},
           main' = Append(main, b)
    PROVE  /\ Cached' = Cached
           /\ \A r : (\E x \in Range(main') : x.kind = "answer" /\ x.req = r)
                        <=> (\E x \in Range(main) : x.kind = "answer" /\ x.req = r)
<1>1. main \in Seq(BlockT)
  BY InvFacts DEF Queues
<1>2. Range(main') = Range(main) \cup {b}
  BY <1>1, AppendRange
<1> QED BY <1>2 DEF Cached

\* The serial queue keeps its pairs.
LEMMA PairsTail ==
    ASSUME NEW j \in Seq(JobT), j # <<>>, NEW q, NEW F, Pairs(j, q, F)
    PROVE  /\ Pairs(Tail(j), q, F)
           /\ Head(j).kind = "write" =>
                 /\ Tail(j) # <<>> /\ Head(Tail(j)).kind = "tell"
                 /\ Head(Tail(j)).req = Head(j).req
           /\ Head(j).kind = "write" /\ q[Head(j).req].src \in F =>
                 q[Head(j).req].page = 1 /\ Head(j).key = q[Head(j).req].key
           /\ Head(j).kind # "write" /\ Tail(j) # <<>> /\ Head(Tail(j)).kind = "tell"
                 /\ q[Head(Tail(j)).req].src \in F => q[Head(Tail(j)).req].page # 1
<1> DEFINE t == Tail(j)
<1>1. 1 \in DOMAIN j /\ Head(j) = j[1] /\ t \in Seq(JobT)
  OBVIOUS
<1>2. \A i \in DOMAIN t : i \in Nat \ {0} /\ i + 1 \in DOMAIN j /\ t[i] = j[i + 1] /\ i + 1 # 1
  OBVIOUS
<1>3. t # <<>> => 1 \in DOMAIN t /\ Head(t) = t[1]
  BY <1>1
<1>4. 2 \in DOMAIN j => t # <<>>
  <2>1. Len(t) = Len(j) - 1 /\ DOMAIN j = 1..Len(j) /\ Len(j) \in Nat /\ Len(<<>>) = 0
    OBVIOUS
  <2> HIDE DEF t
  <2> QED BY <2>1
<1>5. t # <<>> => Head(t) = j[2] /\ 2 \in DOMAIN j
  BY <1>2, <1>3
<1>6. /\ 1 \in DOMAIN j /\ Head(j) = j[1] /\ t \in Seq(JobT)
      /\ \A i \in DOMAIN t : i \in Nat \ {0} /\ i + 1 \in DOMAIN j /\ t[i] = j[i + 1] /\ i + 1 # 1
      /\ t # <<>> => Head(t) = j[2] /\ 2 \in DOMAIN j
      /\ 2 \in DOMAIN j => t # <<>>
  BY <1>1, <1>2, <1>4, <1>5
<1>7. \A i \in DOMAIN t : i + 2 \in DOMAIN j => i + 1 \in DOMAIN t /\ t[i + 1] = j[i + 2]
  OBVIOUS
<1>8. \A i \in DOMAIN t : i # 1 => i - 1 \in DOMAIN t /\ t[i - 1] = j[i]
  OBVIOUS
<1> HIDE DEF t
<1>9. ASSUME NEW i \in DOMAIN t, t[i].kind = "write", q[t[i].req].src \in F
      PROVE  q[t[i].req].page = 1 /\ t[i].key = q[t[i].req].key
  <2>1. i + 1 \in DOMAIN j /\ t[i] = j[i + 1]
    BY <1>6
  <2>2. j[i + 1].kind = "write" /\ q[j[i + 1].req].src \in F
           => q[j[i + 1].req].page = 1 /\ j[i + 1].key = q[j[i + 1].req].key
    BY <2>1 DEF Pairs
  <2> QED BY <1>9, <2>1, <2>2
<1>10. ASSUME NEW i \in DOMAIN t, t[i].kind = "write"
       PROVE  i + 1 \in DOMAIN t /\ t[i + 1].kind = "tell" /\ t[i + 1].req = t[i].req
  <2>1. i + 1 \in DOMAIN j /\ t[i] = j[i + 1] /\ (i + 1) + 1 = i + 2
    BY <1>6
  <2>2. /\ (i + 1) + 1 \in DOMAIN j /\ j[(i + 1) + 1].kind = "tell"
        /\ j[(i + 1) + 1].req = j[i + 1].req
    BY <1>10, <2>1 DEF Pairs
  <2>3. i + 1 \in DOMAIN t /\ t[i + 1] = j[i + 2]
    BY <1>7, <2>1, <2>2
  <2> QED BY <2>1, <2>2, <2>3
<1>11. ASSUME NEW i \in DOMAIN t, t[i].kind = "tell", q[t[i].req].src \in F,
              q[t[i].req].page = 1, i # 1
       PROVE  t[i - 1].kind = "write" /\ t[i - 1].req = t[i].req
  <2>1. i + 1 \in DOMAIN j /\ t[i] = j[i + 1] /\ i + 1 # 1 /\ (i + 1) - 1 = i
    BY <1>6
  <2>2. j[(i + 1) - 1].kind = "write" /\ j[(i + 1) - 1].req = j[i + 1].req
    BY <1>11, <2>1 DEF Pairs
  <2> QED BY <1>8, <1>11, <2>1, <2>2
<1>12. Pairs(t, q, F)
  BY <1>9, <1>10, <1>11 DEF Pairs
<1>13. /\ Head(j).kind = "write" => t # <<>> /\ Head(t).kind = "tell" /\ Head(t).req = Head(j).req
       /\ Head(j).kind = "write" /\ q[Head(j).req].src \in F =>
             q[Head(j).req].page = 1 /\ Head(j).key = q[Head(j).req].key
  <2>1. 1 + 1 = 2 /\ 1 \in DOMAIN j /\ Head(j) = j[1]
    BY <1>6
  <2>2. j[1].kind = "write" => 2 \in DOMAIN j /\ j[2].kind = "tell" /\ j[2].req = j[1].req
    BY <2>1 DEF Pairs
  <2>3. j[1].kind = "write" /\ q[j[1].req].src \in F =>
           q[j[1].req].page = 1 /\ j[1].key = q[j[1].req].key
    BY <2>1 DEF Pairs
  <2> QED BY <1>6, <2>1, <2>2, <2>3
<1>14. ASSUME Head(j).kind # "write", t # <<>>, Head(t).kind = "tell", q[Head(t).req].src \in F
       PROVE  q[Head(t).req].page # 1
  <2>1. 2 \in DOMAIN j /\ 2 # 1 /\ 2 - 1 = 1 /\ Head(t) = j[2] /\ Head(j) = j[1]
    BY <1>6, <1>14
  <2>2. j[2].kind = "tell" /\ q[j[2].req].src \in F /\ q[j[2].req].page = 1
           => j[2 - 1].kind = "write"
    BY <2>1 DEF Pairs
  <2> QED BY <1>14, <2>1, <2>2
<1>15. Head(j).kind # "write" /\ t # <<>> /\ Head(t).kind = "tell" /\ q[Head(t).req].src \in F
          => q[Head(t).req].page # 1
  BY <1>14
<1> QED BY <1>12, <1>13, <1>15 DEF t

\* The requests keep who asked and for what, and fewer sources count.
LEMMA PairsReqs ==
    ASSUME NEW j, NEW q, NEW p, NEW F, NEW G, G \subseteq F, Pairs(j, q, F),
           \A i \in DOMAIN j : /\ p[j[i].req].src = q[j[i].req].src
                               /\ p[j[i].req].page = q[j[i].req].page
                               /\ p[j[i].req].key = q[j[i].req].key
    PROVE  Pairs(j, p, G)
BY DEF Pairs

\* A job that is neither a write nor the telling of a first page joins it.
LEMMA PairsAppend ==
    ASSUME NEW j \in Seq(JobT), NEW q, NEW F, Pairs(j, q, F), NEW b \in JobT,
           b.kind # "write", b.kind = "tell" /\ q[b.req].src \in F => q[b.req].page # 1
    PROVE  Pairs(Append(j, b), q, F)
<1> DEFINE a == Append(j, b)
           n == Len(j) + 1
<1>1. /\ a[n] = b /\ n \in DOMAIN a
      /\ \A i \in DOMAIN j : i \in DOMAIN a /\ a[i] = j[i]
      /\ \A i \in DOMAIN a : i \in DOMAIN j \/ i = n
      /\ \A i \in DOMAIN j : i # 1 => i - 1 \in DOMAIN j /\ a[i - 1] = j[i - 1]
  OBVIOUS
<1> HIDE DEF a, n
<1>2. ASSUME NEW i \in DOMAIN a, a[i].kind = "write"
      PROVE  /\ i + 1 \in DOMAIN a /\ a[i + 1].kind = "tell" /\ a[i + 1].req = a[i].req
             /\ q[a[i].req].src \in F => q[a[i].req].page = 1 /\ a[i].key = q[a[i].req].key
  <2>1. i \in DOMAIN j /\ a[i] = j[i]
    BY <1>1, <1>2
  <2>2. /\ i + 1 \in DOMAIN j /\ j[i + 1].kind = "tell" /\ j[i + 1].req = j[i].req
        /\ q[j[i].req].src \in F => q[j[i].req].page = 1 /\ j[i].key = q[j[i].req].key
    BY <1>2, <2>1 DEF Pairs
  <2> QED BY <1>1, <2>1, <2>2
<1>3. ASSUME NEW i \in DOMAIN a, a[i].kind = "tell", q[a[i].req].src \in F,
             q[a[i].req].page = 1, i # 1
      PROVE  a[i - 1].kind = "write" /\ a[i - 1].req = a[i].req
  <2>1. i \in DOMAIN j
    BY <1>1, <1>3
  <2> QED BY <1>1, <1>3, <2>1 DEF Pairs
<1>4. Pairs(a, q, F)
  BY <1>2, <1>3 DEF Pairs
<1> QED BY <1>4 DEF a

\* A first page joins it: a write and its telling.
LEMMA PairsAppendPair ==
    ASSUME NEW j \in Seq(JobT), NEW q, NEW F, Pairs(j, q, F), NEW w \in JobT, NEW t \in JobT,
           w.kind = "write", t.kind = "tell", t.req = w.req,
           q[w.req].src \in F => q[w.req].page = 1 /\ w.key = q[w.req].key
    PROVE  Pairs(Append(Append(j, w), t), q, F)
<1> DEFINE a == Append(Append(j, w), t)
           n == Len(j) + 1
<1>1. /\ a[n] = w /\ n \in DOMAIN a /\ n + 1 \in DOMAIN a /\ a[n + 1] = t /\ (n + 1) - 1 = n
      /\ \A i \in DOMAIN j : i \in DOMAIN a /\ a[i] = j[i]
      /\ \A i \in DOMAIN a : i \in DOMAIN j \/ i = n \/ i = n + 1
      /\ \A i \in DOMAIN j : i # 1 => i - 1 \in DOMAIN j /\ a[i - 1] = j[i - 1]
  OBVIOUS
<1> HIDE DEF a, n
<1>2. ASSUME NEW i \in DOMAIN a, a[i].kind = "write"
      PROVE  /\ i + 1 \in DOMAIN a /\ a[i + 1].kind = "tell" /\ a[i + 1].req = a[i].req
             /\ q[a[i].req].src \in F => q[a[i].req].page = 1 /\ a[i].key = q[a[i].req].key
  <2>1. CASE i \in DOMAIN j
    BY <1>1, <1>2, <2>1 DEF Pairs
  <2>2. CASE i = n
    BY <1>1, <2>2
  <2>3. CASE i = n + 1
    BY <1>1, <1>2, <2>3
  <2> QED BY <1>1, <2>1, <2>2, <2>3
<1>3. ASSUME NEW i \in DOMAIN a, a[i].kind = "tell", q[a[i].req].src \in F,
             q[a[i].req].page = 1, i # 1
      PROVE  a[i - 1].kind = "write" /\ a[i - 1].req = a[i].req
  <2>1. CASE i \in DOMAIN j
    BY <1>1, <1>3, <2>1 DEF Pairs
  <2>2. CASE i = n
    BY <1>1, <1>3, <2>2
  <2>3. CASE i = n + 1
    BY <1>1, <2>3
  <2> QED BY <1>1, <2>1, <2>2, <2>3
<1>4. Pairs(a, q, F)
  BY <1>2, <1>3 DEF Pairs
<1> QED BY <1>4 DEF a

\* What a turn of the serial queue leaves of the sets.
LEMMA ReadJobSets ==
    ASSUME IInv, Calm, ReadJob
    PROVE  LET j == Head(jobs)
               b == Block("cached", j.req, cache[j.key])
           IN  /\ j \in JobT /\ j.kind = "read" /\ j.req \in DOMAIN reqs
               /\ Has(reqs[j.req].src, j.key)
               /\ jobs' \in Seq(JobT) /\ Pairs(jobs', reqs, Plain)
               /\ Range(jobs') \subseteq Range(jobs)
               /\ Reads = Reads' \cup {j}
               /\ IF cache[j.key] = NoBody THEN main' = main /\ Cached' = Cached
                  ELSE Range(main') = Range(main) \cup {b} /\ Cached' = Cached \cup {b}
               /\ \A r \in DOMAIN reqs : reqs[r].page = 1 /\ reqs[r].src \in Plain =>
                     (Answering(r)' <=> Answering(r))
<1> DEFINE j == Head(jobs)
           stored == cache[j.key]
           b == Block("cached", j.req, stored)
<1>1. /\ jobs' \in Seq(JobT) /\ j.kind = "read" /\ j.req \in DOMAIN reqs /\ j \in JobT
      /\ jobs # <<>> /\ jobs' = Tail(jobs) /\ jobs \in Seq(JobT)
  BY RunJobFacts, InvFacts DEF ReadJob, RunJob, Queues
<1>2. Pairs(jobs, reqs, Plain)
  BY DEF Calm
<1>3. /\ Pairs(jobs', reqs, Plain)
      /\ jobs' # <<>> /\ Head(jobs').kind = "tell" /\ reqs[Head(jobs').req].src \in Plain
            => reqs[Head(jobs').req].page # 1
  BY <1>1, <1>2, PairsTail
<1>4. Range(jobs) = Range(jobs') \cup {j}
  BY <1>1, TailRange
<1>5. Has(reqs[j.req].src, j.key) /\ Range(jobs') \subseteq Range(jobs)
  BY <1>4 DEF Calm, Asked
<1>6. /\ TypeInv /\ main \in Seq(BlockT) /\ cache \in [Keys -> Body \cup {NoBody}]
      /\ j.req \in Nat \ {0}
  BY <1>1, InvFacts, Typed
<1>7. j.key \in Keys
  BY <1>1 DEF JobT
<1>8. main' = IF stored = NoBody THEN main ELSE Append(main, b)
  BY DEF ReadJob
<1>9. stored \in Body \cup {NoBody}
  BY <1>6, <1>7
<1> HIDE DEF j, stored
<1>10. b \in BlockT /\ b.kind = "cached" /\ b.req = j.req
  BY <1>6, <1>9, BlockType
<1> HIDE DEF b
<1>11. /\ stored = NoBody => main' = main
       /\ stored # NoBody => Range(main') = Range(main) \cup {b}
  BY <1>6, <1>8, <1>10, AppendRange
<1>12. Reads = Reads' \cup {j}
  BY <1>1, <1>4 DEF Reads
<1>13. /\ stored = NoBody => Cached' = Cached
       /\ stored # NoBody => Cached' = Cached \cup {b}
  BY <1>10, <1>11 DEF Cached
<1>14. \A r \in DOMAIN reqs : reqs[r].page = 1 /\ reqs[r].src \in Plain =>
          (Answering(r)' <=> Answering(r))
  <2>1. \A r : (\E x \in Range(main') : x.kind = "answer" /\ x.req = r)
                  <=> (\E x \in Range(main) : x.kind = "answer" /\ x.req = r)
    BY <1>10, <1>11
  <2>2. jobs # <<>> /\ Head(jobs).kind # "tell"
    BY <1>1 DEF j
  <2> QED BY <1>3, <2>1, <2>2 DEF Answering
<1> QED BY <1>1, <1>3, <1>5, <1>11, <1>12, <1>13, <1>14 DEF j, stored, b

LEMMA WriteJobSets ==
    ASSUME IInv, Calm, WriteJob
    PROVE  LET j == Head(jobs)
           IN  /\ j \in JobT /\ j.kind = "write" /\ j.req \in DOMAIN reqs
               /\ Has(reqs[j.req].src, j.key)
               /\ reqs[j.req].src \in Plain => reqs[j.req].page = 1 /\ j.key = reqs[j.req].key
               /\ Due(reqs[j.req])
               /\ jobs' \in Seq(JobT) /\ Pairs(jobs', reqs, Plain)
               /\ Range(jobs') \subseteq Range(jobs)
               /\ Reads' = Reads /\ Cached' = Cached
               /\ ~Answering(j.req)
               /\ \A r \in DOMAIN reqs :
                     reqs[r].page = 1 /\ reqs[r].src \in Plain =>
                        (Answering(r)' <=> (Answering(r) \/ r = j.req))
<1> DEFINE j == Head(jobs)
<1>1. /\ jobs' \in Seq(JobT) /\ j.kind = "write" /\ j.req \in DOMAIN reqs /\ j \in JobT
      /\ jobs # <<>> /\ jobs' = Tail(jobs) /\ jobs \in Seq(JobT) /\ main' = main
  BY RunJobFacts, InvFacts DEF WriteJob, RunJob, Queues
<1>2. Pairs(jobs, reqs, Plain)
  BY DEF Calm
<1>3. /\ Pairs(jobs', reqs, Plain)
      /\ reqs[j.req].src \in Plain => reqs[j.req].page = 1 /\ j.key = reqs[j.req].key
      /\ jobs' # <<>> /\ Head(jobs').kind = "tell" /\ Head(jobs').req = j.req
  BY <1>1, <1>2, PairsTail
<1>4. Range(jobs) = Range(jobs') \cup {j} /\ Head(jobs') \in Range(jobs')
  BY <1>1, <1>3, TailRange, HeadRange
<1>5. Has(reqs[j.req].src, j.key) /\ Range(jobs') \subseteq Range(jobs)
  BY <1>4 DEF Calm, Asked
<1>6. Reads' = Reads /\ Cached' = Cached
  BY <1>1, <1>4 DEF Reads, Cached
<1>7. Head(jobs') \in Range(jobs)
  BY <1>4
<1>8. Due(reqs[j.req])
  BY <1>3, <1>7, Elements DEF JobOK
<1>9. ~Answering(j.req)
  <2>1. Queues(main, later, jobs, heard, reqs)
    BY InvFacts
  <2>2. PICK k \in DOMAIN jobs : jobs[k] = Head(jobs')
    BY <1>7 DEF Range
  <2>3. \A x \in Range(main) : x.kind # "cached" => x.req # jobs[k].req
    <3>1. jobs[k].kind = "tell"
      BY <1>3, <2>2
    <3>2. \A i \in DOMAIN main : main[i].kind # "cached" => main[i].req # jobs[k].req
      BY <2>1, <2>2, <3>1 DEF Queues, Sole
    <3> QED BY <3>2 DEF Range
  <2> HIDE DEF j
  <2>4. \A x \in Range(main) : x.kind = "answer" => x.req # j.req
    BY <1>3, <2>2, <2>3
  <2>5. Head(jobs).kind # "tell"
    BY <1>1 DEF j
  <2> QED BY <2>4, <2>5 DEF Answering
<1>10. \A r \in DOMAIN reqs : reqs[r].page = 1 /\ reqs[r].src \in Plain =>
          (Answering(r)' <=> (Answering(r) \/ r = j.req))
  BY <1>1, <1>3 DEF Answering
<1> QED BY <1>1, <1>3, <1>5, <1>6, <1>8, <1>9, <1>10

LEMMA TellJobSets ==
    ASSUME IInv, Calm, TellJob
    PROVE  /\ jobs' \in Seq(JobT) /\ Pairs(jobs', reqs, Plain)
           /\ Range(jobs') \subseteq Range(jobs)
           /\ Reads' = Reads /\ Cached' = Cached
           /\ Range(main') = Range(main) \cup {Block("answer", Head(jobs).req, NoBody)}
           /\ \A r \in DOMAIN reqs : reqs[r].page = 1 /\ reqs[r].src \in Plain =>
                 (Answering(r)' <=> Answering(r))
<1> DEFINE j == Head(jobs)
           b == Block("answer", j.req, NoBody)
<1>1. /\ jobs' \in Seq(JobT) /\ j.kind = "tell" /\ j.req \in DOMAIN reqs /\ j \in JobT
      /\ jobs # <<>> /\ jobs' = Tail(jobs) /\ jobs \in Seq(JobT) /\ main' = Append(main, b)
  BY RunJobFacts, InvFacts DEF TellJob, RunJob, Queues
<1>2. Pairs(jobs, reqs, Plain)
  BY DEF Calm
<1>3. /\ Pairs(jobs', reqs, Plain)
      /\ jobs' # <<>> /\ Head(jobs').kind = "tell" /\ reqs[Head(jobs').req].src \in Plain
            => reqs[Head(jobs').req].page # 1
  BY <1>1, <1>2, PairsTail
<1>4. Range(jobs) = Range(jobs') \cup {j}
  BY <1>1, TailRange
<1>5. TypeInv /\ main \in Seq(BlockT) /\ j.req \in Nat \ {0}
  BY <1>1, InvFacts, Typed
<1>6. j = Head(jobs)
  OBVIOUS
<1> HIDE DEF j
<1>7. b \in BlockT /\ b.kind = "answer" /\ b.req = j.req
  BY <1>5, BlockType
<1>8. Range(main') = Range(main) \cup {b}
  BY <1>1, <1>5, <1>7, AppendRange
<1>9. Reads' = Reads
  BY <1>1, <1>4 DEF Reads
<1>10. Cached' = Cached
  <2> HIDE DEF b
  <2> QED BY <1>7, <1>8 DEF Cached
<1>11. \A r \in DOMAIN reqs : reqs[r].page = 1 /\ reqs[r].src \in Plain =>
          (Answering(r)' <=> Answering(r))
  <2> HIDE DEF b
  <2>1. \A r : (\E x \in Range(main') : x.kind = "answer" /\ x.req = r)
                  <=> (\E x \in Range(main) : x.kind = "answer" /\ x.req = r) \/ r = j.req
    BY <1>7, <1>8
  <2> QED BY <1>1, <1>3, <1>6, <2>1 DEF Answering
<1> QED BY <1>1, <1>3, <1>4, <1>6, <1>8, <1>9, <1>10, <1>11

-----------------------------------------------------------------------------
(* Steps that leave a data source alone.                                   *)

\* Its requests are told nothing; what came to an end stays as it is.
ReqsQuiet(s) ==
    /\ Made(s)' = Made(s)
    /\ \A r \in Made(s) :
          /\ reqs'[r].page = reqs[r].page /\ reqs'[r].key = reqs[r].key
          /\ reqs'[r].told = reqs[r].told
          /\ reqs'[r].void = reqs[r].void /\ reqs'[r].changed = reqs[r].changed
          /\ reqs[r].at = "done" => reqs'[r].at = "done" /\ reqs'[r].body = reqs[r].body

QueuesQuiet(s) ==
    Given(s)' = Given(s) /\ Waiting(s)' = Waiting(s) /\ Reading(s)' = Reading(s)

DataQuiet(s) ==
    /\ ds'[s] = ds[s] /\ last'[s] = last[s]
    /\ cache'[Address(s)] = cache[Address(s)]

LEMMA OrderKeeps ==
    ASSUME NEW list, NEW lost, NEW more, lost \subseteq more, Order(list, lost)
    PROVE  Order(list, more)
BY DEF Order, Gap

LEMMA PlaceKeeps ==
    ASSUME NEW d, NEW open, NEW lost, NEW more, lost \subseteq more,
           Place(d, open, lost)
    PROVE  Place(d, open, more)
BY DEF Place, Gap

LEMMA QuietReqs ==
    ASSUME NEW s, ReqsQuiet(s)
    PROVE  Open(s)' = Open(s) /\ Lost(s) \subseteq Lost(s)'
<1>1. Open(s)' = Open(s)
  BY DEF ReqsQuiet, Open
<1>2. ASSUME NEW p \in Nat, Missed(s, p)
      PROVE  Missed(s, p)'
  <2>1. PICK r \in DOMAIN reqs : /\ reqs[r].src = s /\ reqs[r].page = p
                                 /\ reqs[r].at = "done" /\ reqs[r].body \in {NoBody, Junk}
    BY <1>2 DEF Missed, Asker
  <2>2. r \in Made(s) /\ Made(s)' = Made(s)
    BY <2>1 DEF Made, ReqsQuiet
  <2>3. r \in DOMAIN reqs' /\ reqs'[r].src = s
    BY <2>2 DEF Made
  <2>4. reqs'[r].page = p /\ reqs'[r].at = "done" /\ reqs'[r].body \in {NoBody, Junk}
    BY <2>1, <2>2 DEF ReqsQuiet
  <2> QED BY <2>3, <2>4 DEF Missed, Asker
<1> QED BY <1>1, <1>2 DEF Lost

\* What a plain data source knows of its requests, when none is made.
LEMMA FirmKeeps ==
    ASSUME NEW s, Firm(s), Made(s)' = Made(s), Open(s)' \subseteq Open(s),
           \A r \in Open(s) : reqs'[r].page = reqs[r].page /\ reqs'[r].key = reqs[r].key,
           ds'[s].pageIndex = ds[s].pageIndex, ds'[s].subject = ds[s].subject,
           ds'[s].shown /\ ~ds'[s].loading =>
              Open(s)' = {} \/ (ds[s].shown /\ ~ds[s].loading)
    PROVE  Firm(s)'
BY DEF Firm, Key

LEMMA FirmQuiet ==
    ASSUME NEW s, Firm(s), ReqsQuiet(s), ds'[s] = ds[s]
    PROVE  Firm(s)'
<1>1. Open(s)' = Open(s) /\ Made(s)' = Made(s)
  BY QuietReqs DEF ReqsQuiet
<1>2. \A r \in Open(s) : reqs'[r].page = reqs[r].page /\ reqs'[r].key = reqs[r].key
  BY DEF ReqsQuiet, Open
<1> QED BY <1>1, <1>2, FirmKeeps

LEMMA QuietStep ==
    ASSUME IInv, NEW s \in Sources, Lists(s), ReqsQuiet(s), QueuesQuiet(s), DataQuiet(s)
    PROVE  Lists(s)'
<1>1. Open(s)' = Open(s) /\ Lost(s) \subseteq Lost(s)'
  BY QuietReqs
<1>2. /\ Given(s)' = Given(s) /\ Waiting(s)' = Waiting(s) /\ Reading(s)' = Reading(s)
      /\ Made(s)' = Made(s)
      /\ ds'[s] = ds[s] /\ last'[s] = last[s]
      /\ cache'[Address(s)] = cache[Address(s)] /\ Address(s)' = Address(s)
  BY DEF QueuesQuiet, DataQuiet, ReqsQuiet, Address, Key
<1>3. \A r \in Open(s) : reqs'[r].page = reqs[r].page /\ reqs'[r].changed = reqs[r].changed
  BY DEF ReqsQuiet, Open
<1>4. \A r \in Given(s) : r \in Open(s) /\ reqs'[r].body = reqs[r].body
  <2>1. \A r \in Given(s) : r \in Made(s) /\ reqs[r].at = "done"
    BY Elements DEF Given, Made, Due
  <2> QED BY <2>1, GivenOpen DEF ReqsQuiet
<1>5. Alone(s)'
  BY <1>1, <1>2, <1>3 DEF Lists, Alone
<1>6. Known(s)' <=> Known(s)
  BY <1>2, <1>3, <1>4 DEF Known
<1>7. Stored(s)'
  <2>1. \A r \in Given(s)' : reqs'[r].body = cache'[Address(s)]
    BY <1>2, <1>4 DEF Lists, Stored
  <2>2. Given(s)' = {} => last'[s] \in {NoBody, cache'[Address(s)]}
    BY <1>2 DEF Lists, Stored
  <2>3. Known(s)' => \A b \in Waiting(s)' : b.body = cache'[Address(s)]
    BY <1>2, <1>6 DEF Lists, Stored
  <2>4. Known(s)' /\ (ds'[s].list # <<>> \/ ~ds'[s].dataChanged)
            => Starts(ds'[s].list, cache'[Address(s)])
    BY <1>2, <1>6 DEF Lists, Stored
  <2> QED BY <1>2, <2>1, <2>2, <2>3, <2>4 DEF Stored, Starts
<1>8. Pending(s)'
  BY <1>2 DEF Lists, Pending
<1>9. Listed(s)'
  <2>1. Order(ds'[s].list, Lost(s)')
    BY <1>1, <1>2, OrderKeeps DEF Lists, Listed
  <2>2. ds'[s].list # <<>> => Place(ds'[s], Open(s)', Lost(s)')
    BY <1>1, <1>2, PlaceKeeps DEF Lists, Listed
  <2> QED BY <1>2, <2>1, <2>2 DEF Lists, Listed, Order, Place, Gap, LastPage
<1> QED BY <1>5, <1>7, <1>8, <1>9 DEF Lists

\* Requests keep who asked and for what.
ReqsStay ==
    \A r \in DOMAIN reqs :
        /\ r \in DOMAIN reqs' /\ reqs'[r].src = reqs[r].src
        /\ reqs'[r].page = reqs[r].page /\ reqs'[r].key = reqs[r].key

LEMMA QuietQueues ==
    ASSUME IInv, ReqsStay, NEW s \in Plain, Made(s)' = Made(s), Cached' = Cached, Reads' = Reads,
           \A r \in DOMAIN reqs : reqs[r].page = 1 /\ reqs[r].src \in Plain =>
              (Answering(r)' <=> Answering(r))
    PROVE  QueuesQuiet(s)
<1>1. \A r \in Made(s) : reqs'[r].page = reqs[r].page /\ r \in DOMAIN reqs
  BY DEF ReqsStay, Made
<1>2. Given(s)' = Given(s)
  BY <1>1 DEF Given, Made
<1>3. /\ \A b \in Cached : b.req \in DOMAIN reqs
      /\ \A j \in Reads : j.req \in DOMAIN reqs
  BY Elements DEF Cached, Reads
<1>4. Waiting(s)' = Waiting(s)
  BY <1>3 DEF Waiting, ReqsStay
<1>5. Reading(s)' = Reading(s)
  BY <1>3 DEF Reading, ReqsStay
<1> QED BY <1>2, <1>4, <1>5 DEF QueuesQuiet

\* One request changes.
LEMMA OneMoves ==
    ASSUME IInv, NEW r \in DOMAIN reqs, NEW e \in RequestT, e.src = reqs[r].src,
           e.page = reqs[r].page, e.key = reqs[r].key, reqs' = [reqs EXCEPT ![r] = e]
    PROVE  /\ DOMAIN reqs' = DOMAIN reqs /\ ReqsStay
           /\ reqs'[r] = e /\ \A x \in DOMAIN reqs : x # r => reqs'[x] = reqs[x]
           /\ \A s : Made(s)' = Made(s) /\ (s # reqs[r].src => ReqsQuiet(s))
           /\ (/\ e.told = reqs[r].told /\ e.void = reqs[r].void /\ e.changed = reqs[r].changed
               /\ reqs[r].at = "done" => e.at = "done" /\ e.body = reqs[r].body)
                 => \A s : ReqsQuiet(s)
<1>1. TypeInv
  BY InvFacts
<1>2. /\ DOMAIN reqs' = DOMAIN reqs /\ reqs'[r] = e
      /\ \A x \in DOMAIN reqs : x # r => reqs'[x] = reqs[x]
  BY <1>1, ReqType
<1>3. ReqsStay
  BY <1>2 DEF ReqsStay
<1>4. \A s : Made(s)' = Made(s)
  BY <1>2 DEF Made
<1>5. ASSUME NEW s, s # reqs[r].src
      PROVE  ReqsQuiet(s)
  <2>1. \A x \in Made(s) : reqs'[x] = reqs[x]
    BY <1>2, <1>5 DEF Made
  <2> QED BY <1>4, <2>1 DEF ReqsQuiet
<1>6. ASSUME e.told = reqs[r].told, e.void = reqs[r].void, e.changed = reqs[r].changed,
             reqs[r].at = "done" => e.at = "done" /\ e.body = reqs[r].body,
             NEW s
      PROVE  ReqsQuiet(s)
  <2>1. \A x \in Made(s) : x \in DOMAIN reqs
    BY DEF Made
  <2> QED BY <1>2, <1>4, <1>6, <2>1 DEF ReqsQuiet
<1> QED BY <1>2, <1>3, <1>4, <1>5, <1>6

LEMMA SameReqs ==
    ASSUME UNCHANGED reqs
    PROVE  ReqsStay /\ \A s : ReqsQuiet(s)
BY DEF ReqsStay, ReqsQuiet, Made

LEMMA SameData ==
    ASSUME UNCHANGED <<ds, cache, last>>
    PROVE  \A s : DataQuiet(s)
BY DEF DataQuiet, Address, Key

\* No body comes and no operation starts anew.
LEMMA BodiesMove ==
    ASSUME IInv, Calm, DOMAIN reqs' = DOMAIN reqs,
           \A x \in DOMAIN reqs :
              /\ reqs'[x].src = reqs[x].src /\ reqs'[x].key = reqs[x].key
              /\ reqs'[x].page = reqs[x].page /\ reqs'[x].body = reqs[x].body
              /\ reqs'[x].at \in {"posted", "queued", "open"}
                    => reqs[x].at \in {"posted", "queued", "open"},
           \A b \in Range(main') :
              /\ b.kind \in {"failed", "timeout"}
                    => b.req \in DOMAIN reqs /\ reqs[b.req].body = NoBody,
           \A t \in Range(later') :
              t.kind = "fail" => t.req \in DOMAIN reqs /\ reqs[t.req].body = NoBody
    PROVE  Bodies(main', later', reqs')
<1>1. \A x \in DOMAIN reqs : BodyOK(reqs[x])
  BY DEF Calm, Bodies
<1>2. \A x \in DOMAIN reqs' : BodyOK(reqs'[x])
  BY <1>1 DEF BodyOK
<1> QED BY <1>2 DEF Bodies

LEMMA BodiesSets ==
    ASSUME IInv, Calm
    PROVE  /\ \A b \in Range(main) : b.kind \in {"failed", "timeout"}
                 => b.req \in DOMAIN reqs /\ reqs[b.req].body = NoBody
           /\ \A t \in Range(later) : t.kind = "fail"
                 => t.req \in DOMAIN reqs /\ reqs[t.req].body = NoBody
           /\ \A x \in DOMAIN reqs : BodyOK(reqs[x])
BY Elements DEF Calm, Bodies

LEMMA PairsStay ==
    ASSUME IInv, Sticky, NEW j, Pairs(j, reqs, Plain), ReqsStay,
           \A i \in DOMAIN j : j[i].req \in DOMAIN reqs
    PROVE  Pairs(j, reqs', Plain')
BY PairsReqs, StickyFacts DEF ReqsStay

\* An address once had is one a data source has or had.
LEMMA HasStill ==
    ASSUME IInv, Sticky, NEW s \in Sources, NEW k, Has(s, k)
    PROVE  Has(s, k)'
<1>1. PICK n \in 1..ds[s].subject : k = Key(s, n)
  BY DEF Has
<1>2. ds[s].subject \in Nat /\ ds'[s].subject \in Nat /\ ds[s].subject <= ds'[s].subject
  BY InvFacts, Typed DEF SourceT, Sticky
<1>3. n \in 1..ds'[s].subject
  BY <1>1, <1>2
<1> QED BY <1>1, <1>3 DEF Has, Key

LEMMA AskedStay ==
    ASSUME IInv, Calm, Sticky, ReqsStay,
           \A j \in Range(jobs') : j \in Range(jobs) \/ Has(reqs[j.req].src, j.key)'
    PROVE  Asked'
<1>1. SUFFICES ASSUME NEW j \in Range(jobs)
               PROVE  Has(reqs[j.req].src, j.key)'
  BY DEF Asked
<1>2. j.req \in DOMAIN reqs /\ Has(reqs[j.req].src, j.key)
  BY Elements DEF Calm, Asked
<1>3. reqs[j.req].src \in Sources /\ reqs'[j.req].src = reqs[j.req].src
  BY <1>2, InvFacts, Typed DEF RequestT, ReqsStay
<1>4. PICK s \in Sources : s = reqs[j.req].src
  BY <1>3
<1>5. Has(s, j.key)'
  BY <1>2, <1>4, HasStill
<1> QED BY <1>3, <1>4, <1>5

LEMMA PairsSame ==
    ASSUME IInv, Calm, Sticky, ReqsStay, UNCHANGED jobs
    PROVE  Pairs(jobs', reqs', Plain') /\ Asked'
<1>1. \A i \in DOMAIN jobs : jobs[i].req \in DOMAIN reqs
  BY Elements DEF Range
<1>2. Pairs(jobs', reqs', Plain')
  BY <1>1, PairsStay DEF Calm
<1>3. Asked'
  BY AskedStay
<1> QED BY <1>2, <1>3

LEMMA FirstPagesStay ==
    ASSUME IInv, Calm, Sticky, ReqsStay, UNCHANGED cache, Cached' \subseteq Cached
    PROVE  FirstPages'
<1>1. CacheIsFirstPage'
  BY DEF Calm, FirstPages, CacheIsFirstPage, Keys, Key, Sticky
<1>2. ASSUME NEW b \in Cached', Clean(Url[Asker(b.req)])', Items(b.body) # <<>>
      PROVE  b.body.page = 1
  <2>1. b \in Cached /\ b.req \in DOMAIN reqs
    BY Elements DEF Cached
  <2>2. Asker(b.req)' = Asker(b.req)
    BY <2>1 DEF ReqsStay, Asker
  <2>3. Clean(Url[Asker(b.req)])
    BY <1>2, <2>2, StickyFacts DEF Clean
  <2> QED BY <1>2, <2>1, <2>3 DEF Calm, FirstPages
<1> QED BY <1>1, <1>2 DEF FirstPages, Items

\* A step that leaves every data source alone.
LEMMA AllQuiet ==
    ASSUME IInv, Calm, Sticky, Bodies(main', later', reqs'), Pairs(jobs', reqs', Plain'),
           Asked', ReqsStay,
           \A s : ReqsQuiet(s), UNCHANGED <<ds, cache, last>>,
           Cached' = Cached, Reads' = Reads,
           \A r \in DOMAIN reqs :
              reqs[r].page = 1 /\ reqs[r].src \in Plain => (Answering(r)' <=> Answering(r))
    PROVE  Calm'
<1>1. ASSUME NEW s \in Fine'
      PROVE  Lists(s)'
  <2>1. s \in Plain /\ s \in Fine /\ s \in Sources
    BY <1>1, StickyFacts DEF Fine
  <2>2. Made(s)' = Made(s)
    BY DEF ReqsQuiet
  <2>3. QueuesQuiet(s)
    BY <2>1, <2>2, QuietQueues
  <2>4. DataQuiet(s) /\ ReqsQuiet(s) /\ Lists(s)
    BY <2>1, SameData DEF Calm
  <2> QED BY <2>1, <2>3, <2>4, QuietStep
<1>2. ASSUME NEW s \in Plain'
      PROVE  Firm(s)'
  <2>1. Firm(s)
    BY <1>2, StickyFacts DEF Calm
  <2> QED BY <2>1, FirmQuiet
<1>3. FirstPages'
  BY FirstPagesStay
<1> QED BY <1>1, <1>2, <1>3 DEF Calm

\* One data source moves.
LEMMA Frame ==
    ASSUME IInv, Calm, Sticky, NEW s \in Sources,
           Bodies(main', later', reqs'), Pairs(jobs', reqs', Plain'), Asked', FirstPages',
           \A t \in Sources : t # s => ReqsQuiet(t) /\ ds'[t] = ds[t],
           \A t \in Fine : t # s => QueuesQuiet(t) /\ DataQuiet(t),
           s \in Plain' => Firm(s)', s \in Fine' => Lists(s)'
    PROVE  Calm'
<1>1. ASSUME NEW t \in Fine', t # s
      PROVE  Lists(t)'
  <2>1. t \in Fine /\ t \in Sources
    BY <1>1, StickyFacts DEF Fine
  <2>2. Lists(t) /\ ReqsQuiet(t) /\ QueuesQuiet(t) /\ DataQuiet(t)
    BY <1>1, <2>1 DEF Calm
  <2> QED BY <2>1, <2>2, QuietStep
<1>2. ASSUME NEW t \in Plain', t # s
      PROVE  Firm(t)'
  <2>1. t \in Sources /\ Firm(t)
    BY <1>2, StickyFacts DEF Calm, Plain
  <2> QED BY <1>2, <2>1, FirmQuiet
<1> QED BY <1>1, <1>2 DEF Calm

-----------------------------------------------------------------------------
(* Operations and the queues between the main thread and the cache.        *)

LEMMA StartOpCalm == ASSUME IInv, Calm, Sticky, NEW r \in DOMAIN reqs, StartOp(r) PROVE Calm'
<1> DEFINE a == reqs[r]
           e == [a EXCEPT !.at = "open", !.item = a.item, !.body = a.body]
<1>1. a \in RequestT /\ a.item \in BOOLEAN /\ a.body \in Body \cup {NoBody} /\ a.at = "queued"
  BY InvFacts, Typed DEF RequestT, StartOp
<1>2. reqs' = [reqs EXCEPT ![r] = e]
  <2>1. e = [a EXCEPT !.at = "open"]
    BY <1>1 DEF RequestT
  <2> QED BY <2>1, InvFacts, Typed DEF StartOp, At
<1>3. UNCHANGED <<ds, wants, main, later, jobs, cache, version, heard, last>>
  BY DEF StartOp
<1>4. /\ e \in RequestT /\ e.src = a.src /\ e.key = a.key /\ e.page = a.page
      /\ e.at = "open" /\ e.told = a.told /\ e.void = a.void /\ e.changed = a.changed
      /\ e.body = a.body
  BY <1>1 DEF RequestT
<1> HIDE DEF e
<1>5. /\ DOMAIN reqs' = DOMAIN reqs /\ ReqsStay /\ \A s : ReqsQuiet(s)
      /\ reqs'[r] = e /\ \A x \in DOMAIN reqs : x # r => reqs'[x] = reqs[x]
  BY <1>1, <1>2, <1>4, OneMoves
<1>6. Bodies(main', later', reqs')
  BY <1>1, <1>3, <1>4, <1>5, BodiesMove, BodiesSets
<1>7. Pairs(jobs', reqs', Plain') /\ Asked'
  BY <1>3, <1>5, PairsSame
<1> QED BY <1>3, <1>5, <1>6, <1>7, AllQuiet DEF Cached, Reads, Answering

\* An operation ends, with a body or without.
LEMMA EndsCalm ==
    ASSUME IInv, Calm, Sticky, NEW r \in DOMAIN reqs, reqs[r].at = "open",
           NEW e \in RequestT, reqs' = [reqs EXCEPT ![r] = e],
           e.src = reqs[r].src, e.key = reqs[r].key, e.page = reqs[r].page, e.at = "ending",
           e.told = reqs[r].told, e.void = reqs[r].void, e.changed = reqs[r].changed,
           BodyOK(e),
           NEW kind \in Ending, kind # "loaded" => e.body = NoBody,
           main' = Append(main, Block(kind, r, NoBody)),
           UNCHANGED <<ds, wants, later, jobs, cache, version, heard, last>>
    PROVE  Calm'
<1> DEFINE a == reqs[r]
           b == Block(kind, r, NoBody)
<1>1. TypeInv /\ r \in Nat \ {0} /\ main \in Seq(BlockT)
  BY InvFacts, Typed
<1>4. /\ DOMAIN reqs' = DOMAIN reqs /\ ReqsStay /\ \A s : ReqsQuiet(s)
      /\ reqs'[r] = e /\ \A x \in DOMAIN reqs : x # r => reqs'[x] = reqs[x]
  BY OneMoves
<1>5. /\ b \in BlockT /\ b.kind = kind /\ b.req = r /\ b.kind \notin {"cached", "answer"}
      /\ main' = Append(main, b)
  BY <1>1 DEF Block, BlockT, Ending
<1> HIDE DEF b
<1>6. Range(main') = Range(main) \cup {b}
  BY <1>1, <1>5, AppendRange
<1>7. Bodies(main', later', reqs')
  <2>1. \A x \in DOMAIN reqs : BodyOK(reqs[x])
    BY BodiesSets
  <2>3. \A x \in DOMAIN reqs' : BodyOK(reqs'[x])
    BY <1>4, <2>1
  <2>4. \A x \in Range(main) : x.kind \in {"failed", "timeout"} => x.req # r
    BY Elements DEF BlockOK, Ending
  <2>5. \A x \in Range(main') : x.kind \in {"failed", "timeout"} => reqs'[x.req].body = NoBody
    BY <1>4, <1>5, <1>6, <2>4, BodiesSets
  <2>6. \A t \in Range(later) : t.kind = "fail" => t.req # r
    BY Elements DEF TimerOK
  <2>7. \A t \in Range(later') : t.kind = "fail" => reqs'[t.req].body = NoBody
    BY <1>4, <2>6, BodiesSets
  <2> QED BY <2>3, <2>5, <2>7 DEF Bodies
<1>8. Pairs(jobs', reqs', Plain') /\ Asked'
  BY <1>4, PairsSame
<1>9. /\ Cached' = Cached
      /\ \A x : (\E y \in Range(main') : y.kind = "answer" /\ y.req = x)
                   <=> (\E y \in Range(main) : y.kind = "answer" /\ y.req = x)
  BY <1>5, MainAppendSets
<1>10. Reads' = Reads /\ \A x : Answering(x)' <=> Answering(x)
  BY <1>9 DEF Reads, Answering
<1> QED BY <1>4, <1>7, <1>8, <1>9, <1>10, AllQuiet

LEMMA EndOpCalm == ASSUME IInv, Calm, Sticky, NEW r \in DOMAIN reqs, EndOp(r) PROVE Calm'
<1> DEFINE a == reqs[r]
           e(body) == [a EXCEPT !.at = "ending", !.body = body]
<1>1. a \in RequestT /\ reqs \in Seq(RequestT) /\ version \in Nat \ {0} /\ BodyOK(a)
  BY InvFacts, Typed, BodiesSets
<1>2. ASSUME NEW body \in Body \cup {NoBody}
      PROVE  /\ e(body) \in RequestT /\ e(body).src = a.src /\ e(body).key = a.key
             /\ e(body).page = a.page /\ e(body).at = "ending" /\ e(body).told = a.told
             /\ e(body).void = a.void /\ e(body).changed = a.changed /\ e(body).body = body
  BY <1>1 DEF RequestT
<1>3. CASE Answer(r)
  <2>1. PICK body \in {[key |-> a.key, page |-> a.page, ver |-> version], Junk} :
           reqs' = [reqs EXCEPT ![r].at = "ending", ![r].body = body]
    BY <1>3 DEF Answer
  <2>2. a.key \in Keys /\ a.page \in Nat \ {0}
    BY <1>1 DEF RequestT
  <2>3. body \in Body \cup {NoBody}
    BY <1>1, <2>1, <2>2, BodyType DEF Body
  <2>4. reqs' = [reqs EXCEPT ![r] = e(body)]
    BY <1>1, <2>1
  <2>5. body \in {NoBody, Junk} \/ (body.key = a.key /\ body.page = a.page)
    BY <2>1
  <2>6. /\ a.at = "open" /\ main' = Append(main, Block("loaded", r, NoBody))
        /\ UNCHANGED <<ds, wants, later, jobs, cache, version, heard, last>>
        /\ "loaded" \in Ending
    BY <1>3 DEF Answer, Ending
  <2>7. BodyOK(e(body))
    BY <1>2, <2>3, <2>5 DEF BodyOK
  <2> HIDE DEF e
  <2> QED BY <1>2, <2>3, <2>4, <2>6, <2>7, EndsCalm
<1>4. ASSUME NEW kind \in {"failed", "timeout"}, a.at = "open", At(r, "ending"),
             main' = Append(main, Block(kind, r, NoBody)),
             UNCHANGED <<ds, wants, later, jobs, cache, version, heard, last>>
      PROVE  Calm'
  <2>1. a.body = NoBody
    BY <1>1, <1>4 DEF BodyOK
  <2>2. reqs' = [reqs EXCEPT ![r] = e(NoBody)]
    <3>1. [a EXCEPT !.at = "ending"] = e(NoBody)
      BY <1>1, <2>1 DEF RequestT
    <3> QED BY <1>1, <1>4, <3>1 DEF At
  <2>3. kind \in Ending /\ NoBody \in Body \cup {NoBody}
    BY DEF Ending
  <2>4. BodyOK(e(NoBody))
    BY <1>2, <2>3 DEF BodyOK
  <2> HIDE DEF e
  <2> QED BY <1>2, <1>4, <2>2, <2>3, <2>4, EndsCalm
<1>5. CASE Break(r)
  BY <1>4, <1>5 DEF Break
<1>6. CASE Timeout(r)
  BY <1>4, <1>6 DEF Timeout
<1> QED BY <1>3, <1>5, <1>6 DEF EndOp

\* A block of the main queue that is neither a cached page nor an answer.
LEMMA BlockSets ==
    ASSUME IInv, NEW kind, kind \notin {"cached", "answer"}, RunBlock(kind), UNCHANGED jobs
    PROVE  /\ Cached' = Cached /\ Reads' = Reads /\ \A x : Answering(x)' <=> Answering(x)
           /\ Range(main') \subseteq Range(main) /\ Head(main) \in Range(main)
<1>1. main \in Seq(BlockT) /\ main # <<>> /\ main' = Tail(main)
  BY InvFacts, RunBlockFacts DEF Queues
<1>2. Range(main) = Range(main') \cup {Head(main)}
  BY <1>1, TailRange
<1> QED BY <1>2, MainTailSets DEF Reads

LEMMA TimerSets ==
    ASSUME IInv, NEW kind, RunTimer(kind)
    PROVE  Range(later') \subseteq Range(later) /\ Head(later) \in Range(later)
<1>1. later \in Seq(TimerT) /\ later # <<>> /\ later' = Tail(later)
  BY InvFacts DEF Queues, RunTimer
<1> QED BY <1>1, TailRange

LEMMA StartHttpCalm == ASSUME IInv, Calm, Sticky, StartHttp PROVE Calm'
<1> DEFINE r == Head(main).req
           a == reqs[r]
           e == [a EXCEPT !.at = "queued", !.item = a.item, !.body = a.body]
<1>1. RunBlock("start") /\ r \in DOMAIN reqs /\ a.at = "posted"
  BY RunBlockFacts DEF StartHttp, BlockOK
<1>2. /\ UNCHANGED <<ds, wants, later, jobs, cache, version, heard, last>>
      /\ At(r, "queued")
  BY DEF StartHttp
<1>3. /\ Cached' = Cached /\ Reads' = Reads /\ \A x : Answering(x)' <=> Answering(x)
      /\ Range(main') \subseteq Range(main)
  BY <1>1, <1>2, BlockSets
<1> HIDE DEF r
<1>4. /\ a \in RequestT /\ a.item \in BOOLEAN /\ a.body \in Body \cup {NoBody}
      /\ reqs \in Seq(RequestT)
  BY <1>1, InvFacts, Typed DEF RequestT
<1>5. reqs' = [reqs EXCEPT ![r] = e]
  <2>1. e = [a EXCEPT !.at = "queued"]
    BY <1>4 DEF RequestT
  <2> QED BY <1>2, <1>4, <2>1 DEF At
<1>6. /\ e \in RequestT /\ e.src = a.src /\ e.key = a.key /\ e.page = a.page
      /\ e.at = "queued" /\ e.told = a.told /\ e.void = a.void /\ e.changed = a.changed
      /\ e.body = a.body
  BY <1>4 DEF RequestT
<1> HIDE DEF e
<1>7. /\ DOMAIN reqs' = DOMAIN reqs /\ ReqsStay /\ \A s : ReqsQuiet(s)
      /\ reqs'[r] = e /\ \A x \in DOMAIN reqs : x # r => reqs'[x] = reqs[x]
  BY <1>1, <1>5, <1>6, OneMoves
<1>8. Bodies(main', later', reqs')
  BY <1>1, <1>2, <1>3, <1>6, <1>7, BodiesMove, BodiesSets
<1>9. Pairs(jobs', reqs', Plain') /\ Asked'
  BY <1>2, <1>7, PairsSame
<1> QED BY <1>2, <1>3, <1>7, <1>8, <1>9, AllQuiet

LEMMA TimeoutBlockCalm == ASSUME IInv, Calm, Sticky, TimeoutBlock PROVE Calm'
<1> DEFINE b == Head(main)
           t == Timer("fail", b.req)
<1>1. /\ RunBlock("timeout") /\ b.req \in DOMAIN reqs /\ b.kind = "timeout"
      /\ later' = Append(later, t)
      /\ UNCHANGED <<ds, wants, reqs, jobs, cache, version, heard, last>>
  BY RunBlockFacts DEF TimeoutBlock
<1>2. /\ Cached' = Cached /\ Reads' = Reads /\ \A x : Answering(x)' <=> Answering(x)
      /\ Range(main') \subseteq Range(main) /\ b \in Range(main)
  BY <1>1, BlockSets
<1> HIDE DEF b
<1>3. TypeInv /\ b.req \in Nat \ {0} /\ later \in Seq(TimerT)
  BY <1>1, InvFacts, Typed
<1>4. t \in TimerT /\ t.req = b.req
  BY <1>3, TimerType
<1> HIDE DEF t
<1>5. Range(later') = Range(later) \cup {t}
  BY <1>1, <1>3, <1>4, AppendRange
<1>6. Bodies(main', later', reqs')
  BY <1>1, <1>2, <1>4, <1>5, BodiesMove, BodiesSets
<1>7. ReqsStay /\ \A s : ReqsQuiet(s)
  BY <1>1, SameReqs
<1>8. Pairs(jobs', reqs', Plain') /\ Asked'
  BY <1>1, <1>7, PairsSame
<1> QED BY <1>1, <1>2, <1>6, <1>7, <1>8, AllQuiet

LEMMA LoadedBlockCalm == ASSUME IInv, Calm, Sticky, LoadedBlock PROVE Calm'
<1> DEFINE r == Head(main).req
           a == reqs[r]
           e == [a EXCEPT !.at = "done", !.item = FALSE, !.body = a.body]
           t == Timer("answer", r)
<1>1. RunBlock("loaded") /\ r \in DOMAIN reqs /\ a.at = "ending"
  BY RunBlockFacts DEF LoadedBlock, BlockOK, Ending
<1>2. /\ a \in RequestT /\ a.body \in Body \cup {NoBody} /\ reqs \in Seq(RequestT)
      /\ later \in Seq(TimerT) /\ r \in Nat \ {0}
  BY <1>1, InvFacts, Typed DEF RequestT
<1>3. /\ UNCHANGED <<ds, wants, jobs, cache, version, heard, last>>
      /\ reqs' = [reqs EXCEPT ![r] = [a EXCEPT !.at = "done", !.item = FALSE]]
      /\ later' = later \/ later' = Append(later, t)
  BY <1>2 DEF LoadedBlock
<1>4. /\ Cached' = Cached /\ Reads' = Reads /\ \A x : Answering(x)' <=> Answering(x)
      /\ Range(main') \subseteq Range(main)
  BY <1>1, <1>3, BlockSets
<1> HIDE DEF r
<1>5. t \in TimerT /\ t.kind = "answer" /\ t.req = r
  BY <1>2, TimerType
<1>6. reqs' = [reqs EXCEPT ![r] = e]
  <2>1. e = [a EXCEPT !.at = "done", !.item = FALSE]
    BY <1>2 DEF RequestT
  <2> QED BY <1>3, <2>1
<1>7. /\ e \in RequestT /\ e.src = a.src /\ e.key = a.key /\ e.page = a.page
      /\ e.at = "done" /\ e.told = a.told /\ e.void = a.void /\ e.changed = a.changed
      /\ e.body = a.body
  BY <1>2 DEF RequestT
<1> HIDE DEF e, t
<1>8. /\ DOMAIN reqs' = DOMAIN reqs /\ ReqsStay /\ \A s : ReqsQuiet(s)
      /\ reqs'[r] = e /\ \A x \in DOMAIN reqs : x # r => reqs'[x] = reqs[x]
  BY <1>1, <1>6, <1>7, OneMoves
<1>9. \A x \in Range(later') : x \in Range(later) \/ x = t
  <2>1. Range(Append(later, t)) = Range(later) \cup {t}
    BY <1>2, <1>5, AppendRange
  <2> QED BY <1>3, <2>1
<1>10. Bodies(main', later', reqs')
  BY <1>1, <1>4, <1>5, <1>7, <1>8, <1>9, BodiesMove, BodiesSets
<1>11. Pairs(jobs', reqs', Plain') /\ Asked'
  BY <1>3, <1>8, PairsSame
<1> QED BY <1>3, <1>4, <1>8, <1>10, <1>11, AllQuiet

\* An answer that is due belongs to the open request of a plain data source.
LEMMA DueOpen ==
    ASSUME IInv, Calm, NEW r \in DOMAIN reqs, Due(reqs[r]), reqs[r].src \in Plain
    PROVE  LET s == reqs[r].src
           IN  /\ r \in Open(s) /\ reqs[r].page = ds[s].pageIndex
               /\ reqs[r].key = Key(s, ds[s].subject)
<1> DEFINE s == reqs[r].src
<1>1. r \in Open(s)
  BY DEF Open, Made, Due
<1>2. Firm(s)
  BY DEF Calm
<1> QED BY <1>1, <1>2 DEF Firm

LEMMA AppendHead ==
    ASSUME NEW S, NEW m \in Seq(S), NEW b \in S
    PROVE  /\ Append(m, b) # <<>>
           /\ m # <<>> => Head(Append(m, b)) = Head(m)
           /\ m = <<>> => Head(Append(m, b)) = b
<1>1. CASE m = <<>>
  <2>1. Append(m, b) = <<b>>
    BY <1>1
  <2> QED BY <1>1, <2>1
<1>2. CASE m # <<>>
  <2>1. Len(m) >= 1 /\ Len(Append(m, b)) = Len(m) + 1 /\ Append(m, b)[1] = m[1]
    BY <1>2
  <2> QED BY <1>2, <2>1
<1> QED BY <1>1, <1>2

\* An answer goes on to the serial queue.
LEMMA AnswerTimerFacts ==
    ASSUME IInv, Calm, AnswerTimer
    PROVE  \E r \in DOMAIN reqs, k \in Keys, page \in Nat :
              /\ r = Head(later).req /\ Has(reqs[r].src, k)
              /\ reqs[r].src \in Plain => reqs[r].page = page /\ reqs[r].key = k
              /\ jobs' = jobs \o (IF page = 1 THEN <<Job("write", r, k)>> ELSE <<>>)
                              \o <<Job("tell", r, k)>>
<1>1. RunTimer("answer")
  BY DEF AnswerTimer
<1>2. PICK r \in DOMAIN reqs : r = Head(later).req /\ Due(reqs[r])
  BY <1>1, RunTimerFacts DEF TimerOK
<1>3. PICK s \in Sources : s = reqs[r].src
  BY <1>2, InvFacts, Typed DEF RequestT
<1>4. ds[s] \in SourceT /\ ds[s].subject \in Nat \ {0} /\ ds[s].subject <= MaxSubject
  BY InvFacts, Typed
<1>5. PICK k \in Keys : k = Key(s, ds[s].subject)
  BY <1>4, KeyType
<1>6. PICK page \in Nat : page = ds[s].pageIndex
  BY <1>4 DEF SourceT
<1>7. jobs' = jobs \o (IF page = 1 THEN <<Job("write", r, k)>> ELSE <<>>) \o <<Job("tell", r, k)>>
  BY <1>2, <1>3, <1>5, <1>6 DEF AnswerTimer
<1>8. Has(s, k)
  <2>1. ds[s].subject \in 1..ds[s].subject
    BY <1>4
  <2> QED BY <1>5, <2>1 DEF Has
<1>9. s \in Plain => reqs[r].page = page /\ reqs[r].key = k
  BY <1>2, <1>3, <1>5, <1>6, DueOpen
<1> QED BY <1>2, <1>3, <1>7, <1>8, <1>9

LEMMA AnswerTimerCalm == ASSUME IInv, Calm, Sticky, AnswerTimer PROVE Calm'
<1>1. RunTimer("answer") /\ UNCHANGED <<ds, wants, reqs, main, cache, version, heard, last>>
  BY DEF AnswerTimer
<1>2. PICK r \in DOMAIN reqs, k \in Keys, page \in Nat :
         /\ r = Head(later).req /\ Has(reqs[r].src, k)
         /\ reqs[r].src \in Plain => reqs[r].page = page /\ reqs[r].key = k
         /\ jobs' = jobs \o (IF page = 1 THEN <<Job("write", r, k)>> ELSE <<>>)
                         \o <<Job("tell", r, k)>>
  BY AnswerTimerFacts
<1>3. Range(later') \subseteq Range(later)
  BY <1>1, TimerSets
<1> DEFINE s == reqs[r].src
           w == Job("write", r, k)
           t == Job("tell", r, k)
<1>4. jobs' = jobs \o (IF page = 1 THEN <<w>> ELSE <<>>) \o <<t>>
  BY <1>2
<1>5. r \in Nat \ {0}
  BY InvFacts, Typed
<1>6. /\ w \in JobT /\ w.kind = "write" /\ w.req = r /\ w.key = k
      /\ t \in JobT /\ t.kind = "tell" /\ t.req = r /\ t.key = k
  BY <1>5 DEF Job, JobT
<1>7. jobs \in Seq(JobT) /\ Pairs(jobs, reqs, Plain)
  BY InvFacts DEF Queues, Calm
<1> HIDE DEF w, t
<1>8. /\ Pairs(jobs', reqs, Plain)
      /\ Range(jobs') \subseteq Range(jobs) \cup {w, t} /\ Range(jobs) \subseteq Range(jobs')
      /\ jobs # <<>> => jobs' # <<>> /\ Head(jobs') = Head(jobs)
      /\ jobs = <<>> /\ page = 1 => Head(jobs') = w
      /\ jobs = <<>> /\ page # 1 => Head(jobs') = t
  <2>1. CASE page = 1
    <3> DEFINE j == Append(jobs, w)
    <3>1. jobs' = Append(j, t) /\ j \in Seq(JobT)
      <4>1. jobs' = (jobs \o <<w>>) \o <<t>>
        BY <1>4, <2>1
      <4>2. j = jobs \o <<w>> /\ j \in Seq(JobT)
        BY <1>6, <1>7
      <4> HIDE DEF j
      <4> QED BY <1>6, <4>1, <4>2
    <3>2. Pairs(jobs', reqs, Plain)
      BY <1>2, <1>6, <1>7, <2>1, <3>1, PairsAppendPair
    <3>3. Range(j) = Range(jobs) \cup {w}
      BY <1>6, <1>7, AppendRange
    <3>4. j # <<>> /\ (jobs # <<>> => Head(j) = Head(jobs)) /\ (jobs = <<>> => Head(j) = w)
      BY <1>6, <1>7, AppendHead
    <3> HIDE DEF j
    <3>5. Range(jobs') = Range(j) \cup {t}
      BY <1>6, <3>1, AppendRange
    <3>6. jobs' # <<>> /\ Head(jobs') = Head(j)
      BY <1>6, <3>1, <3>4
    <3> QED BY <2>1, <3>2, <3>3, <3>4, <3>5, <3>6
  <2>2. CASE page # 1
    <3>1. jobs' = Append(jobs, t)
      BY <1>4, <1>6, <1>7, <2>2
    <3>2. Pairs(jobs', reqs, Plain)
      BY <1>2, <1>6, <1>7, <2>2, <3>1, PairsAppend
    <3>3. Range(jobs') = Range(jobs) \cup {t}
      BY <1>6, <1>7, <3>1, AppendRange
    <3>4. /\ jobs' # <<>> /\ (jobs # <<>> => Head(jobs') = Head(jobs))
          /\ (jobs = <<>> => Head(jobs') = t)
      BY <1>6, <1>7, <3>1
    <3> QED BY <2>2, <3>2, <3>3, <3>4
  <2> QED BY <2>1, <2>2
<1>9. Reads' = Reads
  BY <1>6, <1>8 DEF Reads
<1>10. Cached' = Cached
  BY <1>1 DEF Cached
<1>11. \A x \in DOMAIN reqs :
          reqs[x].page = 1 /\ reqs[x].src \in Plain => (Answering(x)' <=> Answering(x))
  <2>1. ASSUME jobs = <<>>, Head(jobs').kind = "tell"
        PROVE  Head(jobs').req = r /\ (s \in Plain => reqs[r].page # 1)
    BY <1>2, <1>6, <1>8, <2>1
  <2>2. jobs = <<>> /\ Head(jobs').kind = "tell" /\ s \in Plain => reqs[Head(jobs').req].page # 1
    BY <2>1
  <2>3. jobs = <<>> /\ Head(jobs').kind = "tell" => reqs[Head(jobs').req].src = s
    BY <2>1
  <2> HIDE DEF s
  <2> QED BY <1>1, <1>8, <2>2, <2>3 DEF Answering
<1>12. Bodies(main', later', reqs')
  BY <1>1, <1>3, BodiesMove, BodiesSets
<1>13. ReqsStay /\ \A x : ReqsQuiet(x)
  BY <1>1, SameReqs
<1>14. Pairs(jobs', reqs', Plain')
  BY <1>1, <1>8 DEF Plain
<1>15. Asked'
  <2>1. Has(reqs[r].src, k)'
    BY <1>1, <1>2 DEF Has, Key
  <2>2. ASSUME NEW j \in Range(jobs')
        PROVE  j \in Range(jobs) \/ Has(reqs[j.req].src, j.key)'
    <3>1. j \in Range(jobs) \/ (j.req = r /\ j.key = k)
      BY <1>6, <1>8
    <3> QED BY <2>1, <3>1
  <2> QED BY <1>13, <2>2, AskedStay
<1> QED BY <1>1, <1>9, <1>10, <1>11, <1>12, <1>13, <1>14, <1>15, AllQuiet

LEMMA TellJobCalm == ASSUME IInv, Calm, Sticky, TellJob PROVE Calm'
<1> DEFINE b == Block("answer", Head(jobs).req, NoBody)
<1>1. UNCHANGED <<ds, wants, reqs, later, cache, version, heard, last>>
  BY DEF TellJob
<1>2. /\ Pairs(jobs', reqs, Plain) /\ Range(jobs') \subseteq Range(jobs)
      /\ Reads' = Reads /\ Cached' = Cached
      /\ Range(main') = Range(main) \cup {b}
      /\ \A r \in DOMAIN reqs : reqs[r].page = 1 /\ reqs[r].src \in Plain =>
            (Answering(r)' <=> Answering(r))
  BY TellJobSets
<1>3. b.kind = "answer"
  BY DEF Block
<1> HIDE DEF b
<1>4. Bodies(main', later', reqs')
  BY <1>1, <1>2, <1>3, BodiesMove, BodiesSets
<1>5. ReqsStay /\ \A x : ReqsQuiet(x)
  BY <1>1, SameReqs
<1>6. Pairs(jobs', reqs', Plain') /\ Asked'
  BY <1>1, <1>2, <1>5, AskedStay DEF Plain
<1> QED BY <1>1, <1>2, <1>4, <1>5, <1>6, AllQuiet

\* Nothing of this happens.
LEMMA RestCalm ==
    ASSUME IInv, Calm, Sticky, UNCHANGED <<ds, reqs, main, later, jobs, cache, last>>
    PROVE  Calm'
<1>1. Bodies(main', later', reqs')
  BY BodiesMove, BodiesSets
<1>2. ReqsStay /\ \A x : ReqsQuiet(x)
  BY SameReqs
<1>3. Pairs(jobs', reqs', Plain') /\ Asked'
  BY <1>2, PairsSame
<1> QED BY <1>1, <1>2, <1>3, AllQuiet DEF Cached, Reads, Answering

-----------------------------------------------------------------------------
(* Gestures.                                                               *)

LEMMA QueuesStay ==
    ASSUME UNCHANGED <<reqs, main, jobs>>
    PROVE  /\ Cached' = Cached /\ Reads' = Reads
           /\ \A s : QueuesQuiet(s) /\ Made(s)' = Made(s) /\ Open(s)' = Open(s)
                     /\ Lost(s)' = Lost(s)
<1>1. Cached' = Cached /\ Reads' = Reads /\ \A r : Answering(r)' <=> Answering(r)
  BY DEF Cached, Reads, Answering
<1>2. ASSUME NEW s
      PROVE  /\ Made(s)' = Made(s) /\ Open(s)' = Open(s) /\ Lost(s)' = Lost(s)
             /\ QueuesQuiet(s)
  <2>1. Made(s)' = Made(s)
    BY DEF Made
  <2>2. Open(s)' = Open(s)
    BY <2>1 DEF Open
  <2>3. Lost(s)' = Lost(s)
    BY DEF Lost, Missed, Asker
  <2>4. Given(s)' = Given(s)
    BY <1>1, <2>1 DEF Given
  <2>5. Waiting(s)' = Waiting(s) /\ Reading(s)' = Reading(s)
    BY <1>1 DEF Waiting, Reading
  <2> QED BY <2>1, <2>2, <2>3, <2>4, <2>5 DEF QueuesQuiet
<1> QED BY <1>1, <1>2

\* The list ends with a page.
LEMMA LastPageType ==
    ASSUME NEW d \in SourceT, d.list # <<>>, NEW lost, Order(d.list, lost)
    PROVE  /\ LastPage(d) \in Nat /\ LastPage(d) >= 1
           /\ d.list[Len(d.list)].page \in Nat /\ d.list[Len(d.list)].page >= 1
           /\ Len(d.list) \in DOMAIN d.list
<1>1. d.list \in Seq(Body)
  BY DEF SourceT
<1>2. Len(d.list) \in DOMAIN d.list /\ d.list[Len(d.list)] \in Body
  BY <1>1
<1>3. d.list[Len(d.list)].page \in Nat /\ d.list[Len(d.list)].page >= 1
  BY <1>2 DEF Order, Body, Junk
<1> QED BY <1>2, <1>3 DEF LastPage

LEMMA ScrollCalm == ASSUME IInv, Calm, Sticky, NEW s \in Sources, Scroll(s) PROVE Calm'
<1>1. UNCHANGED <<ds, reqs, main, later, jobs, cache, version, heard, last>>
  BY DEF Scroll
<1> QED BY <1>1, RestCalm

\* What a cancellation leaves of a request.
Rest(a, e) ==
    /\ e.src = a.src /\ e.key = a.key /\ e.page = a.page /\ e.at = a.at /\ e.body = a.body
    /\ e.told = a.told /\ e.changed = a.changed
    /\ a.void => e.void

LEMMA DroppedRest ==
    ASSUME IInv, NEW s \in Sources
    PROVE  /\ DOMAIN Dropped(s) = DOMAIN reqs
           /\ \A x \in DOMAIN reqs :
                 /\ Rest(reqs[x], Dropped(s)[x])
                 /\ reqs[x].src # s => Dropped(s)[x].void = reqs[x].void
<1>1. ASSUME NEW x \in DOMAIN reqs
      PROVE  /\ Rest(reqs[x], Dropped(s)[x])
             /\ reqs[x].src # s => Dropped(s)[x].void = reqs[x].void
  <2>1. reqs[x] \in RequestT
    BY InvFacts, Typed
  <2>2. CASE reqs[x].src = s
    <3>1. PICK c \in BOOLEAN : c = (reqs[x].void \/ reqs[x].item)
      BY <2>1 DEF RequestT
    <3>2. Dropped(s)[x] = [reqs[x] EXCEPT !.item = FALSE, !.void = c]
      BY <2>2, <3>1 DEF Dropped
    <3>3. reqs[x].void => c
      BY <3>1
    <3> QED BY <2>1, <2>2, <3>2, <3>3 DEF RequestT, Rest
  <2>3. CASE reqs[x].src # s
    <3>1. Dropped(s)[x] = reqs[x]
      BY <2>3 DEF Dropped
    <3> QED BY <3>1 DEF Rest
  <2> QED BY <2>2, <2>3
<1>2. DOMAIN Dropped(s) = DOMAIN reqs
  BY DEF Dropped
<1> QED BY <1>1, <1>2

\* Of the requests of s, those that may be answered still when it has dropped them.
Unanswered(s, rs) == {r \in Made(s) : rs[r].told = 0 /\ ~rs[r].void}

\* The next request of a data source, whatever becomes of its older ones.
LEMMA SubmitFrame ==
    ASSUME IInv, Calm, Sticky, NEW s \in Sources,
           NEW d \in SourceT, d.subject <= MaxSubject,
           NEW rs \in Seq(RequestT), DOMAIN rs = DOMAIN reqs, Len(rs) = Len(reqs),
           \A x \in DOMAIN reqs : /\ Rest(reqs[x], rs[x])
                                  /\ reqs[x].src # s => rs[x].void = reqs[x].void,
           Submit(s, d, rs), UNCHANGED <<later, cache>>,
           \A t \in Sources : t # s => last'[t] = last[t]
    PROVE  LET n == Len(reqs) + 1
               a == Job("read", n, Key(s, d.subject))
           IN  /\ Bodies(main', later', reqs') /\ Pairs(jobs', reqs', Plain') /\ Asked'
               /\ FirstPages'
               /\ \A t \in Sources : t # s => ReqsQuiet(t) /\ ds'[t] = ds[t]
               /\ \A t \in Fine : t # s => QueuesQuiet(t) /\ DataQuiet(t)
               /\ ds'[s] = d /\ reqs'[n].page = d.pageIndex /\ reqs'[n].changed
               /\ reqs'[n].key = Key(s, d.subject)
               /\ Open(s)' = Unanswered(s, rs) \cup {n} /\ \A q \in Made(s)' : q <= n
               /\ Given(s)' = Given(s) /\ Waiting(s)' = Waiting(s)
               /\ Reading(s)' = Reading(s) \cup (IF d.pageIndex = 1 THEN {a} ELSE {})
               /\ Lost(s) \subseteq Lost(s)'
<1> DEFINE n == Len(reqs) + 1
           k == Key(s, d.subject)
           new == [src |-> s, key |-> k, page |-> d.pageIndex, at |-> "posted", item |-> TRUE,
                   changed |-> TRUE, body |-> NoBody, told |-> 0, void |-> FALSE]
           b == Block("start", n, NoBody)
           a == Job("read", n, k)
<1>1. /\ TypeInv /\ reqs \in Seq(RequestT) /\ Len(reqs) \in Nat /\ DOMAIN reqs = 1..Len(reqs)
      /\ main \in Seq(BlockT) /\ jobs \in Seq(JobT) /\ ds \in [Sources -> SourceT]
  BY InvFacts, Typed
<1>2. /\ d.pageIndex \in Nat \ {0} /\ d.subject \in Nat \ {0} /\ n \in Nat \ {0}
      /\ n \notin DOMAIN reqs /\ \A x \in DOMAIN reqs : x <= n
  BY <1>1 DEF SourceT
<1>3. k \in Keys
  BY <1>2, KeyType
<1>4. /\ ds' = [ds EXCEPT ![s] = d] /\ reqs' = Append(rs, new) /\ main' = Append(main, b)
      /\ jobs' = IF d.pageIndex = 1 THEN Append(jobs, a) ELSE jobs
  BY DEF Submit
<1>5. \A t : Address(t)' = Address(t)
  BY DEF Address, Key
<1>6. ds'[s] = d /\ \A t \in Sources : t # s => ds'[t] = ds[t]
  BY <1>1, <1>4
<1>7. Has(s, k)'
  <2>1. d.subject \in 1..d.subject
    BY <1>2
  <2> QED BY <1>6, <2>1 DEF Has, Key
<1> HIDE DEF k
<1>8. /\ new \in RequestT /\ new.src = s /\ new.page = d.pageIndex /\ new.changed = TRUE
      /\ new.told = 0 /\ new.void = FALSE /\ new.key = k /\ new.body = NoBody
      /\ new.at = "posted"
  BY <1>2, <1>3 DEF RequestT
<1>9. /\ b \in BlockT /\ b.kind = "start" /\ b.req = n
      /\ a \in JobT /\ a.kind = "read" /\ a.req = n /\ a.key = k
  BY <1>2, <1>3 DEF Block, BlockT, Job, JobT
<1> HIDE DEF new
<1>10. /\ DOMAIN reqs' = DOMAIN rs \cup {Len(rs) + 1} /\ reqs'[Len(rs) + 1] = new
       /\ \A x \in DOMAIN rs : reqs'[x] = rs[x]
  BY <1>4, <1>8
<1>11. /\ DOMAIN reqs' = DOMAIN reqs \cup {n} /\ reqs'[n] = new
       /\ \A x \in DOMAIN reqs : reqs'[x] = rs[x] /\ Rest(reqs[x], reqs'[x])
       /\ \A x \in DOMAIN reqs : reqs[x].src # s => reqs'[x].void = reqs[x].void
  BY <1>10
<1> HIDE DEF b, a, n
<1>12. ReqsStay
  BY <1>11 DEF ReqsStay, Rest
<1>13. /\ Range(main') = Range(main) \cup {b} /\ Cached' = Cached
       /\ \A r : (\E x \in Range(main') : x.kind = "answer" /\ x.req = r)
                    <=> (\E x \in Range(main) : x.kind = "answer" /\ x.req = r)
  BY <1>1, <1>4, <1>9, AppendRange, MainAppendSets
<1>14. /\ Reads' = Reads \cup (IF d.pageIndex = 1 THEN {a} ELSE {})
       /\ \A r : Answering(r)' <=> Answering(r)
       /\ Pairs(jobs', reqs', Plain') /\ Asked'
  <2>1. \A i \in DOMAIN jobs : jobs[i].req \in DOMAIN reqs
    BY Elements DEF Range
  <2>2. Pairs(jobs, reqs', Plain')
    BY <1>12, <2>1, PairsStay DEF Calm
  <2>3. CASE d.pageIndex = 1
    <3>1. jobs' = Append(jobs, a)
      BY <1>4, <2>3
    <3>2. Range(jobs') = Range(jobs) \cup {a}
      BY <1>1, <1>9, <3>1, AppendRange
    <3>3. /\ jobs' # <<>> /\ (jobs # <<>> => Head(jobs') = Head(jobs))
          /\ (jobs = <<>> => Head(jobs') = a)
      BY <1>1, <1>9, <3>1, AppendHead
    <3>4. Pairs(jobs', reqs', Plain')
      BY <1>1, <1>9, <2>2, <3>1, PairsAppend
    <3>5. Reads' = Reads \cup {a}
      BY <1>9, <3>2 DEF Reads
    <3>6. \A r : Answering(r)' <=> Answering(r)
      BY <1>9, <1>13, <3>3 DEF Answering
    <3>7. Asked'
      <4>1. ASSUME NEW m, m = n
            PROVE  Has(reqs[m].src, k)'
        BY <1>7, <1>8, <1>11, <4>1 DEF Has
      <4>2. ASSUME NEW j \in Range(jobs')
            PROVE  j \in Range(jobs) \/ Has(reqs[j.req].src, j.key)'
        <5>1. j \in Range(jobs) \/ (j.req = n /\ j.key = k)
          BY <1>9, <3>2
        <5> QED BY <4>1, <5>1 DEF Has
      <4> QED BY <1>12, <4>2, AskedStay
    <3> QED BY <2>3, <3>4, <3>5, <3>6, <3>7
  <2>4. CASE d.pageIndex # 1
    <3>1. jobs' = jobs
      BY <1>4, <2>4
    <3>2. Asked'
      BY <1>12, <3>1, PairsSame
    <3> QED BY <1>13, <2>2, <2>4, <3>1, <3>2 DEF Reads, Answering
  <2> QED BY <2>3, <2>4
<1>15. FirstPages'
  BY <1>12, <1>13, FirstPagesStay
<1>16. Bodies(main', later', reqs')
  <2>1. \A x \in DOMAIN reqs : BodyOK(reqs[x])
    BY BodiesSets
  <2>2. BodyOK(new)
    BY <1>8 DEF BodyOK
  <2>3. \A x \in DOMAIN reqs : BodyOK(reqs'[x]) /\ reqs'[x].body = reqs[x].body
    BY <1>11, <2>1 DEF BodyOK, Rest
  <2>4. \A x \in DOMAIN reqs' : BodyOK(reqs'[x])
    BY <1>11, <2>2, <2>3
  <2> QED BY <1>9, <1>13, <2>3, <2>4, BodiesSets DEF Bodies
<1>17. Made(s)' = Made(s) \cup {n} /\ \A t \in Sources : t # s => Made(t)' = Made(t)
  BY <1>2, <1>8, <1>11 DEF Made, Rest
<1>18. \A r \in Made(s) : r \in DOMAIN reqs /\ r # n
  BY <1>2 DEF Made
<1>19. Open(s)' = Unanswered(s, rs) \cup {n}
  BY <1>8, <1>11, <1>17, <1>18 DEF Open, Unanswered
<1>20. \A t \in Sources : Given(t)' = Given(t)
  <2>1. ~Answering(n)
    <3>1. \A x \in Range(main) : x.req # n
      BY <1>2, Elements
    <3>2. jobs # <<>> => Head(jobs).req # n
      BY <1>1, <1>2, HeadRange, Elements
    <3> QED BY <3>1, <3>2 DEF Answering
  <2>2. \A x \in DOMAIN reqs : reqs'[x].page = reqs[x].page
    BY <1>12 DEF ReqsStay
  <2>3. \A t : \A r \in Made(t) : r \in DOMAIN reqs
    BY DEF Made
  <2> QED BY <1>14, <1>17, <2>1, <2>2, <2>3 DEF Given
<1>21. Lost(s) \subseteq Lost(s)'
  <2>1. ASSUME NEW p \in Nat, Missed(s, p)
        PROVE  Missed(s, p)'
    <3>1. PICK r \in DOMAIN reqs : /\ reqs[r].src = s /\ reqs[r].page = p
                                   /\ reqs[r].at = "done" /\ reqs[r].body \in {NoBody, Junk}
      BY <2>1 DEF Missed, Asker
    <3>2. /\ r \in DOMAIN reqs' /\ reqs'[r].src = s /\ reqs'[r].page = p
          /\ reqs'[r].at = "done" /\ reqs'[r].body \in {NoBody, Junk}
      BY <1>11, <3>1 DEF Rest
    <3> QED BY <3>2 DEF Missed, Asker
  <2> QED BY <2>1 DEF Lost
<1>22. /\ \A x \in Cached : x.req \in DOMAIN reqs
       /\ \A x \in Reads : x.req \in DOMAIN reqs
  BY Elements DEF Cached, Reads
<1>23. \A t : Waiting(t)' = Waiting(t)
  BY <1>12, <1>13, <1>22 DEF Waiting, ReqsStay
<1>24. /\ Reading(s)' = Reading(s) \cup (IF d.pageIndex = 1 THEN {a} ELSE {})
       /\ \A t : t # s => Reading(t)' = Reading(t)
  <2>1. \A t : \A x \in Reads : reqs'[x.req].src = t <=> reqs[x.req].src = t
    BY <1>12, <1>22 DEF ReqsStay
  <2>2. reqs'[a.req].src = s
    BY <1>8, <1>9, <1>11
  <2>3. \A t : Reading(t)' = {x \in Reads' : reqs'[x.req].src = t}
    BY DEF Reading
  <2>4. \A t : Reading(t) = {x \in Reads : reqs'[x.req].src = t}
    BY <2>1 DEF Reading
  <2>5. CASE d.pageIndex = 1
    <3>1. Reads' = Reads \cup {a}
      BY <1>14, <2>5
    <3> QED BY <2>2, <2>3, <2>4, <2>5, <3>1
  <2>6. CASE d.pageIndex # 1
    BY <1>14, <2>3, <2>4, <2>6
  <2> QED BY <2>5, <2>6
<1>25. ASSUME NEW t \in Sources, t # s
       PROVE  ReqsQuiet(t) /\ QueuesQuiet(t) /\ DataQuiet(t)
  <2>1. \A r \in Made(t) : r \in DOMAIN reqs /\ reqs[r].src # s
    BY <1>25 DEF Made
  <2>2. ReqsQuiet(t)
    BY <1>11, <1>17, <1>25, <2>1 DEF ReqsQuiet, Rest
  <2>3. DataQuiet(t)
    BY <1>5, <1>6, <1>25 DEF DataQuiet
  <2>4. QueuesQuiet(t)
    BY <1>20, <1>23, <1>24, <1>25 DEF QueuesQuiet
  <2> QED BY <2>2, <2>3, <2>4
<1>26. \A q \in Made(s)' : q <= n
  BY <1>2, <1>17, <1>18
<1>27. \A t \in Fine : t \in Sources
  BY DEF Fine
<1> QED BY <1>8, <1>11, <1>14, <1>15, <1>16, <1>19, <1>20, <1>21, <1>23, <1>24, <1>25,
          <1>6, <1>26, <1>27 DEF n, a, k

\* It is the only one open.
LEMMA FirmNew ==
    ASSUME NEW s, NEW n, Open(s)' = {n}, \A q \in Made(s)' : q <= n, ds'[s].loading = TRUE,
           reqs'[n].page = ds'[s].pageIndex, reqs'[n].key = Key(s, ds'[s].subject)
    PROVE  Firm(s)'
BY DEF Firm, Key

\* The next request of a data source that has none open.
LEMMA SubmitCalm ==
    ASSUME IInv, Calm, Sticky, NEW s \in Sources, NEW d \in SourceT,
           d.subject <= MaxSubject, d.loading = TRUE, s \in Plain' => Open(s) = {},
           Submit(s, d, reqs), UNCHANGED <<later, cache, last>>
    PROVE  LET n == Len(reqs) + 1
               a == Job("read", n, Key(s, d.subject))
           IN  /\ Bodies(main', later', reqs') /\ Pairs(jobs', reqs', Plain') /\ Asked'
               /\ FirstPages'
               /\ \A t \in Sources : t # s => ReqsQuiet(t) /\ ds'[t] = ds[t]
               /\ \A t \in Fine : t # s => QueuesQuiet(t) /\ DataQuiet(t)
               /\ ds'[s] = d /\ reqs'[n].page = d.pageIndex /\ reqs'[n].changed
               /\ s \in Plain' => Firm(s)'
               /\ s \in Plain' => Open(s) = {} /\ Open(s)' = {n}
               /\ s \in Plain' => Given(s) = {} /\ Given(s)' = {}
               /\ Waiting(s)' = Waiting(s)
               /\ Reading(s)' = Reading(s) \cup (IF d.pageIndex = 1 THEN {a} ELSE {})
               /\ Lost(s) \subseteq Lost(s)'
<1> DEFINE n == Len(reqs) + 1
           a == Job("read", n, Key(s, d.subject))
<1>1. \A x \in DOMAIN reqs : /\ Rest(reqs[x], reqs[x])
                             /\ reqs[x].src # s => reqs[x].void = reqs[x].void
  BY DEF Rest
<1>2. reqs \in Seq(RequestT)
  BY InvFacts, Typed
<1>3. /\ Bodies(main', later', reqs') /\ Pairs(jobs', reqs', Plain') /\ Asked'
      /\ FirstPages'
      /\ \A t \in Sources : t # s => ReqsQuiet(t) /\ ds'[t] = ds[t]
      /\ \A t \in Fine : t # s => QueuesQuiet(t) /\ DataQuiet(t)
      /\ ds'[s] = d /\ reqs'[n].page = d.pageIndex /\ reqs'[n].changed
      /\ reqs'[n].key = Key(s, d.subject)
      /\ Open(s)' = Unanswered(s, reqs) \cup {n} /\ \A q \in Made(s)' : q <= n
      /\ Given(s)' = Given(s) /\ Waiting(s)' = Waiting(s)
      /\ Reading(s)' = Reading(s) \cup (IF d.pageIndex = 1 THEN {a} ELSE {})
      /\ Lost(s) \subseteq Lost(s)'
  BY <1>1, <1>2, SubmitFrame
<1>4. Unanswered(s, reqs) = Open(s)
  BY DEF Unanswered, Open
<1> HIDE DEF n, a
<1>5. ASSUME s \in Plain'
      PROVE  Open(s)' = {n} /\ Given(s) = {} /\ Given(s)' = {}
  BY <1>3, <1>4, <1>5, GivenOpen
<1>6. ASSUME s \in Plain'
      PROVE  Firm(s)'
  BY <1>3, <1>5, <1>6, FirmNew
<1> QED BY <1>3, <1>5, <1>6 DEF n, a

LEMMA RefreshCalm == ASSUME IInv, Calm, Sticky, NEW s \in Sources, Refresh(s) PROVE Calm'
<1> DEFINE n == Len(reqs) + 1
           a == Job("read", n, Key(s, ds[s].subject))
           d == Reloaded(ds[s])
<1>1. ds[s] \in SourceT /\ ds[s].subject <= MaxSubject
  BY InvFacts, Typed
<1>2. /\ ds[s].shown /\ ~ds[s].loading /\ Submit(s, d, reqs)
      /\ UNCHANGED <<wants, later, cache, version, heard, last>>
  BY DEF Refresh
<1>3. d \in SourceT /\ d.subject = ds[s].subject
  BY <1>1, ReloadedType
<1>4. /\ d.loading = TRUE /\ d.pageIndex = 1 /\ d.list = ds[s].list /\ d.hasMore = ds[s].hasMore
      /\ d.dataChanged = (ds[s].dataChanged \/ ds[s].pageIndex # 1)
  BY <1>1 DEF Reloaded, SourceT
<1> HIDE DEF d
<1>5. s \in Plain' => Open(s) = {}
  BY <1>2, StickyFacts DEF Calm, Firm
<1>6. /\ Bodies(main', later', reqs') /\ Pairs(jobs', reqs', Plain') /\ Asked' /\ FirstPages'
      /\ \A t \in Sources : t # s => ReqsQuiet(t) /\ ds'[t] = ds[t]
      /\ \A t \in Fine : t # s => QueuesQuiet(t) /\ DataQuiet(t)
      /\ ds'[s] = d /\ reqs'[n].page = 1 /\ reqs'[n].changed
      /\ s \in Plain' => Firm(s)'
      /\ s \in Plain' => Open(s) = {} /\ Open(s)' = {n}
      /\ s \in Plain' => Given(s) = {} /\ Given(s)' = {}
      /\ Waiting(s)' = Waiting(s) /\ Reading(s)' = Reading(s) \cup {a}
      /\ Lost(s) \subseteq Lost(s)'
  BY <1>1, <1>2, <1>3, <1>4, <1>5, SubmitCalm
<1> HIDE DEF n, a
<1>7. SUFFICES ASSUME s \in Fine' PROVE Lists(s)'
  BY <1>6, Frame
<1>8. Lists(s) /\ Open(s)' = {n} /\ Given(s) = {} /\ Given(s)' = {}
  BY <1>6, <1>7, StickyFacts DEF Calm
<1>9. cache'[Address(s)] = cache[Address(s)] /\ Address(s)' = Address(s) /\ last'[s] = last[s]
  BY <1>2 DEF Address, Key
<1>10. Alone(s)'
  BY <1>6, <1>8 DEF Alone
<1>11. Stored(s)'
  <2>1. Known(s) /\ Known(s)'
    BY <1>8 DEF Known
  <2> QED BY <1>4, <1>6, <1>8, <1>9, <2>1 DEF Lists, Stored, Starts
<1>12. Pending(s)'
  <2>1. last[s] # NoBody /\ ds[s].list = <<>> => ~d.dataChanged
    BY <1>4, <1>8 DEF Lists, Pending, Listed
  <2> QED BY <1>4, <1>6, <1>9, <2>1 DEF Pending
<1>13. Listed(s)'
  <2>1. Order(d.list, Lost(s)')
    BY <1>4, <1>6, <1>8, OrderKeeps DEF Lists, Listed
  <2>2. ASSUME d.list # <<>>
        PROVE  Place(d, {n}, Lost(s)')
    <3>1. LastPage(d) = 1
      <4>1. LastPage(ds[s]) \in Nat /\ LastPage(ds[s]) >= 1 /\ LastPage(ds[s]) <= ds[s].pageIndex
        BY <1>1, <1>4, <1>8, <2>2, LastPageType DEF Lists, Listed, Place
      <4>2. ~d.dataChanged => LastPage(d) = LastPage(ds[s]) /\ ds[s].pageIndex = 1
        BY <1>4 DEF LastPage
      <4>3. d.dataChanged => LastPage(d) = 1
        BY DEF LastPage
      <4> QED BY <4>1, <4>2, <4>3
    <3> QED BY <1>4, <3>1 DEF Place, Gap
  <2>3. ds[s].hasMore => ds[s].list # <<>>
    BY <1>8 DEF Lists, Listed
  <2> QED BY <1>4, <1>6, <1>8, <2>1, <2>2, <2>3 DEF Listed, Order, Place, Gap, LastPage
<1> QED BY <1>10, <1>11, <1>12, <1>13 DEF Lists

LEMMA LoadMoreCalm == ASSUME IInv, Calm, Sticky, NEW s \in Sources, LoadMore(s) PROVE Calm'
<1> DEFINE n == Len(reqs) + 1
<1>1. /\ ds[s] \in SourceT /\ ds[s].subject <= MaxSubject /\ ds[s].pageIndex \in Nat \ {0}
  BY InvFacts, Typed DEF SourceT
<1>2. PICK d \in SourceT :
         /\ Submit(s, d, reqs) /\ d.subject = ds[s].subject
         /\ d.pageIndex = ds[s].pageIndex + 1 /\ d.loading = TRUE
         /\ d.list = ds[s].list /\ d.hasMore = ds[s].hasMore
         /\ d.dataChanged = ds[s].dataChanged /\ d.shown = ds[s].shown
         /\ d.stale = (ds[s].stale \/ ~MayLoadMore(ds[s]))
  BY LoadMoreFacts
<1>3. UNCHANGED <<later, cache, version, heard, last>>
  BY DEF LoadMore
<1>4. d.pageIndex # 1
  BY <1>1, <1>2
<1>5. s \in Plain' => MayLoadMore(ds[s]) /\ Open(s) = {}
  <2>1. ds'[s] = d
    BY <1>2, InvFacts, Typed DEF Submit
  <2>2. ASSUME s \in Plain'
        PROVE  MayLoadMore(ds[s])
    BY <1>2, <2>1, <2>2 DEF Plain
  <2>3. s \in Plain' => Firm(s)
    BY StickyFacts DEF Calm
  <2> QED BY <2>2, <2>3 DEF Firm, MayLoadMore
<1>6. d.subject <= MaxSubject /\ d.loading = TRUE /\ Submit(s, d, reqs)
  BY <1>1, <1>2
<1>7. (s \in Plain' => Open(s) = {}) /\ UNCHANGED <<later, cache, last>>
  BY <1>3, <1>5
<1>8. /\ Bodies(main', later', reqs') /\ Pairs(jobs', reqs', Plain') /\ Asked' /\ FirstPages'
      /\ \A t \in Sources : t # s => ReqsQuiet(t) /\ ds'[t] = ds[t]
      /\ \A t \in Fine : t # s => QueuesQuiet(t) /\ DataQuiet(t)
      /\ ds'[s] = d /\ reqs'[n].page = d.pageIndex /\ reqs'[n].changed
      /\ s \in Plain' => Firm(s)'
      /\ s \in Plain' => Open(s) = {} /\ Open(s)' = {n}
      /\ s \in Plain' => Given(s) = {} /\ Given(s)' = {}
      /\ Waiting(s)' = Waiting(s)
      /\ Reading(s)' = Reading(s) \cup
                       (IF d.pageIndex = 1 THEN {Job("read", n, Key(s, d.subject))} ELSE {})
      /\ Lost(s) \subseteq Lost(s)'
  BY <1>6, <1>7, SubmitCalm
<1> HIDE DEF n
<1>9. SUFFICES ASSUME s \in Fine' PROVE Lists(s)'
  BY <1>8, Frame
<1>10. Reading(s)' = Reading(s)
  BY <1>4, <1>8
<1>11. cache'[Address(s)] = cache[Address(s)] /\ Address(s)' = Address(s) /\ last'[s] = last[s]
  BY <1>3 DEF Address, Key
<1>12. /\ Lists(s) /\ Open(s) = {} /\ Open(s)' = {n} /\ Given(s) = {} /\ Given(s)' = {}
       /\ ds[s].shown /\ ds[s].hasMore /\ ds[s].list # <<>>
  <2>1. s \in Plain' /\ Lists(s)
    BY <1>9, StickyFacts DEF Calm
  <2> QED BY <1>5, <1>8, <2>1 DEF MayLoadMore, Lists, Listed
<1>13. Alone(s)'
  BY <1>8, <1>12 DEF Alone
<1>14. Stored(s)'
  <2>1. Known(s) /\ Known(s)'
    BY <1>12 DEF Known
  <2> QED BY <1>2, <1>8, <1>11, <1>12, <2>1 DEF Lists, Stored, Starts
<1>15. Pending(s)'
  BY <1>2, <1>8, <1>10, <1>11, <1>12 DEF Lists, Pending
<1>16. Listed(s)'
  <2> DEFINE l == LastPage(ds[s])
             p == ds[s].pageIndex
  <2>1. Order(ds[s].list, Lost(s)) /\ Place(ds[s], {}, Lost(s))
    BY <1>12 DEF Lists, Listed
  <2>2. Order(d.list, Lost(s)')
    BY <1>2, <1>8, <2>1, OrderKeeps
  <2>3. l \in Nat /\ LastPage(d) = l /\ p \in Nat
    BY <1>1, <1>2, <1>12, <2>1, LastPageType DEF LastPage
  <2>4. l <= p /\ Gap(l, p, Lost(s)) /\ (p = l \/ p \in Lost(s))
    BY <1>12, <2>1 DEF Place
  <2> HIDE DEF l, p
  <2>5. Gap(l, p + 1, Lost(s)')
    <3>1. SUFFICES ASSUME NEW x \in (l + 1)..((p + 1) - 1)
                   PROVE  x \in Lost(s)
      BY <1>8 DEF Gap
    <3>2. CASE x = p
      BY <2>3, <2>4, <3>2
    <3>3. CASE x # p
      <4>1. x \in (l + 1)..(p - 1)
        BY <2>3, <3>3
      <4> QED BY <2>4, <4>1 DEF Gap
    <3> QED BY <3>2, <3>3
  <2>6. Place(d, {n}, Lost(s)')
    BY <1>2, <2>3, <2>4, <2>5 DEF Place, p
  <2> QED BY <1>2, <1>8, <1>12, <2>2, <2>6 DEF Listed, Order, Place, Gap, LastPage
<1> QED BY <1>13, <1>14, <1>15, <1>16 DEF Lists

\* Another item: the cell is no list any more, and plain only when nothing older is
\* on its way.
LEMMA RebindCalm == ASSUME IInv, Calm, Sticky, NEW s \in Sources, Rebind(s) PROVE Calm'
<1> DEFINE n == Len(reqs) + 1
<1>1. PICK d \in SourceT :
         /\ Submit(s, d, Dropped(s)) /\ d.subject = ds[s].subject + 1
         /\ d.subject <= MaxSubject /\ d.pageIndex = 1 /\ d.loading = TRUE
         /\ d.stale = (ds[s].stale \/ Awaited(s, Dropped(s)))
  BY RebindFacts
<1>2. /\ UNCHANGED <<wants, later, cache, version, heard>>
      /\ last' = [last EXCEPT ![s] = NoBody] /\ last \in [Sources -> Body \cup {NoBody}]
  BY InvFacts, Typed DEF Rebind
<1>3. \A t \in Sources : t # s => last'[t] = last[t]
  BY <1>2
<1>4. /\ DOMAIN Dropped(s) = DOMAIN reqs /\ Dropped(s) \in Seq(RequestT)
      /\ Len(Dropped(s)) = Len(reqs)
      /\ \A x \in DOMAIN reqs : /\ Rest(reqs[x], Dropped(s)[x])
                                /\ reqs[x].src # s => Dropped(s)[x].void = reqs[x].void
  BY DroppedFacts, DroppedRest
<1>5. /\ Bodies(main', later', reqs') /\ Pairs(jobs', reqs', Plain') /\ Asked' /\ FirstPages'
      /\ \A t \in Sources : t # s => ReqsQuiet(t) /\ ds'[t] = ds[t]
      /\ \A t \in Fine : t # s => QueuesQuiet(t) /\ DataQuiet(t)
      /\ ds'[s] = d /\ reqs'[n].page = d.pageIndex /\ reqs'[n].key = Key(s, d.subject)
      /\ Open(s)' = Unanswered(s, Dropped(s)) \cup {n} /\ \A q \in Made(s)' : q <= n
  BY <1>1, <1>2, <1>3, <1>4, SubmitFrame
<1> HIDE DEF n
<1>6. ASSUME s \in Plain'
      PROVE  Firm(s)'
  <2>1. ~Awaited(s, Dropped(s))
    BY <1>1, <1>5, <1>6 DEF Plain
  <2>2. Unanswered(s, Dropped(s)) = {}
    BY <1>4, <2>1 DEF Awaited, Unanswered, Made, Rest
  <2> QED BY <1>1, <1>5, <2>2, FirmNew
<1>7. s \notin Fine'
  <2>1. ds[s].subject \in Nat \ {0}
    BY InvFacts, Typed
  <2>2. ds'[s].subject # 1
    BY <1>1, <1>5, <2>1
  <2> QED BY <2>2 DEF Fine, Orderly
<1> QED BY <1>5, <1>6, <1>7, Frame

LEMMA LeaveCalm == ASSUME IInv, Calm, Sticky, NEW s \in Sources, Leave(s) PROVE Calm'
<1> DEFINE d == [ds[s] EXCEPT !.shown = FALSE, !.loading = FALSE]
<1>1. /\ ds \in [Sources -> SourceT] /\ ds[s] \in SourceT
  BY InvFacts, Typed
<1>2. /\ d.shown = FALSE /\ d.loading = FALSE /\ d.subject = ds[s].subject
      /\ d.pageIndex = ds[s].pageIndex /\ d.list = ds[s].list /\ d.hasMore = ds[s].hasMore
      /\ d.dataChanged = ds[s].dataChanged
  BY <1>1 DEF SourceT
<1>3. ds' = [ds EXCEPT ![s] = d] /\ reqs' = Dropped(s)
      /\ UNCHANGED <<wants, main, later, jobs, cache, version, heard, last>>
  BY <1>1 DEF Leave
<1> HIDE DEF d
<1>4. ds'[s] = d /\ \A t \in Sources : t # s => ds'[t] = ds[t]
  BY <1>1, <1>3
<1>5. /\ DOMAIN reqs' = DOMAIN reqs
      /\ \A x \in DOMAIN reqs :
            /\ reqs'[x].src = reqs[x].src /\ reqs'[x].key = reqs[x].key
            /\ reqs'[x].page = reqs[x].page /\ reqs'[x].body = reqs[x].body
            /\ reqs'[x].at = reqs[x].at /\ reqs'[x].told = reqs[x].told
            /\ reqs'[x].changed = reqs[x].changed
            /\ reqs[x].void => reqs'[x].void
            /\ reqs[x].src # s => reqs'[x].void = reqs[x].void
  BY <1>3, DroppedRest DEF Rest
<1>6. ReqsStay /\ \A t : Made(t)' = Made(t)
  BY <1>5 DEF ReqsStay, Made
<1>7. Cached' = Cached /\ Reads' = Reads /\ \A r : Answering(r)' <=> Answering(r)
  BY <1>3 DEF Cached, Reads, Answering
<1>8. \A t \in Plain : QueuesQuiet(t)
  BY <1>6, <1>7, QuietQueues
<1>9. Open(s)' \subseteq Open(s) /\ Lost(s) \subseteq Lost(s)'
  <2>1. ASSUME NEW p \in Nat, Missed(s, p)
        PROVE  Missed(s, p)'
    BY <1>5, <2>1 DEF Missed, Asker
  <2>2. Open(s)' \subseteq Open(s)
    BY <1>5, <1>6 DEF Open, Made
  <2> QED BY <2>1, <2>2 DEF Lost
<1>10. Bodies(main', later', reqs')
  BY <1>3, <1>5, BodiesMove, BodiesSets
<1>11. Pairs(jobs', reqs', Plain') /\ Asked'
  BY <1>3, <1>6, PairsSame
<1>12. FirstPages'
  BY <1>3, <1>6, <1>7, FirstPagesStay
<1>13. ASSUME NEW t \in Sources, t # s
       PROVE  ReqsQuiet(t) /\ ds'[t] = ds[t] /\ DataQuiet(t)
  <2>1. \A r \in Made(t) : r \in DOMAIN reqs /\ reqs[r].src # s
    BY <1>13 DEF Made
  <2>2. ReqsQuiet(t)
    BY <1>5, <1>6, <2>1 DEF ReqsQuiet
  <2> QED BY <1>3, <1>4, <1>13, <2>2 DEF DataQuiet, Address, Key
<1>14. \A t \in Fine : t \in Sources /\ t \in Plain
  BY StickyFacts DEF Fine
<1>15. ASSUME s \in Plain'
       PROVE  Firm(s)'
  <2>1. Firm(s)
    BY <1>15, StickyFacts DEF Calm
  <2>2. \A r \in Open(s) : reqs'[r].page = reqs[r].page /\ reqs'[r].key = reqs[r].key
    BY <1>5 DEF Open, Made
  <2> QED BY <1>2, <1>4, <1>6, <1>9, <2>1, <2>2, FirmKeeps
<1>16. SUFFICES ASSUME s \in Fine' PROVE Lists(s)'
  BY <1>8, <1>10, <1>11, <1>12, <1>13, <1>14, <1>15, Frame
<1>17. Lists(s) /\ s \in Plain
  BY <1>16, StickyFacts DEF Calm
<1>18. /\ Given(s)' = Given(s) /\ Waiting(s)' = Waiting(s) /\ Reading(s)' = Reading(s)
       /\ cache'[Address(s)] = cache[Address(s)] /\ Address(s)' = Address(s)
       /\ last'[s] = last[s]
  BY <1>3, <1>8, <1>17 DEF QueuesQuiet, Address, Key
<1>19. Alone(s)'
  <2>1. \A r \in Open(s)' : r \in Open(s) /\ r \in DOMAIN reqs
    BY <1>9 DEF Open, Made
  <2> QED BY <1>5, <1>17, <1>18, <2>1 DEF Lists, Alone
<1>20. Stored(s)'
  <2>1. \A r \in Given(s) : r \in DOMAIN reqs
    BY DEF Given, Made
  <2>2. Known(s)' <=> Known(s)
    BY <1>5, <1>18, <2>1 DEF Known
  <2>3. \A r \in Given(s)' : reqs'[r].body = cache'[Address(s)]
    BY <1>5, <1>17, <1>18, <2>1 DEF Lists, Stored
  <2> QED BY <1>2, <1>4, <1>17, <1>18, <2>2, <2>3 DEF Lists, Stored, Starts
<1>21. Pending(s)'
  BY <1>2, <1>4, <1>17, <1>18 DEF Lists, Pending
<1>22. Listed(s)'
  <2>1. Order(d.list, Lost(s)')
    BY <1>2, <1>9, <1>17, OrderKeeps DEF Lists, Listed
  <2>2. ASSUME d.list # <<>>
        PROVE  Place(d, Open(s)', Lost(s)')
    <3>1. Place(ds[s], Open(s), Lost(s)')
      BY <1>2, <1>9, <1>17, <2>2, PlaceKeeps DEF Lists, Listed
    <3>2. LastPage(d) = LastPage(ds[s])
      BY <1>2 DEF LastPage
    <3> QED BY <1>2, <1>9, <3>1, <3>2 DEF Place
  <2>3. ds[s].hasMore \/ ds[s].pageIndex # 1 => ds[s].list # <<>>
    BY <1>17 DEF Lists, Listed
  <2> QED BY <1>2, <1>4, <1>18, <2>1, <2>2, <2>3 DEF Listed, Order, Place, Gap, LastPage
<1> QED BY <1>19, <1>20, <1>21, <1>22 DEF Lists

-----------------------------------------------------------------------------
(* Ends.                                                                   *)

\* The open request of a plain data source.
LEMMA OpenFacts ==
    ASSUME IInv, Calm, NEW s \in Sources, s \in Plain, NEW r \in Open(s)
    PROVE  /\ r \in DOMAIN reqs /\ r \in Made(s) /\ r \in Nat \ {0} /\ reqs[r].src = s
           /\ reqs[r] \in RequestT /\ reqs[r].page = ds[s].pageIndex
           /\ reqs[r].key = Key(s, ds[s].subject)
           /\ Open(s) = {r} /\ Given(s) \subseteq {r} /\ \A q \in Made(s) : q <= r
<1>1. r \in Made(s) /\ r \in DOMAIN reqs /\ reqs[r].src = s
  BY DEF Open, Made
<1>2. /\ \A q \in DOMAIN reqs : q \in Nat \ {0}
      /\ reqs[r] \in RequestT
  BY <1>1, InvFacts, Typed
<1>3. Firm(s)
  BY DEF Calm
<1>4. \A q \in Open(s) : q = r
  <2>1. \A q \in Open(s) : q \in Made(s) /\ q \in Nat
    BY <1>2 DEF Open, Made
  <2>2. \A q \in Open(s) : q <= r /\ r <= q
    BY <1>1, <1>3, <2>1 DEF Firm
  <2> QED BY <1>1, <1>2, <2>1, <2>2
<1> QED BY <1>1, <1>2, <1>3, <1>4, GivenOpen DEF Firm

\* The open request of a data source is told that nothing came, or nothing usable.
LEMMA ToldCalm ==
    ASSUME IInv, Calm, Sticky, NEW s \in Sources, NEW r \in Open(s), ~Answering(r),
           reqs[r].body \in {NoBody, Junk},
           NEW e \in RequestT, e.src = s, e.key = reqs[r].key, e.page = reqs[r].page,
           e.body = reqs[r].body, e.at = "done", e.told # 0,
           reqs' = [reqs EXCEPT ![r] = e], ds' = [ds EXCEPT ![s] = Failed(ds[s])],
           UNCHANGED <<jobs, cache, last>>,
           Cached' = Cached, \A x : Answering(x)' <=> Answering(x),
           Range(main') \subseteq Range(main), Range(later') \subseteq Range(later)
    PROVE  Calm'
<1> DEFINE d == Failed(ds[s])
<1>1. /\ ds \in [Sources -> SourceT] /\ ds[s] \in SourceT
  BY InvFacts, Typed
<1>2. r \in DOMAIN reqs /\ r \in Made(s) /\ reqs[r].src = s
  BY DEF Open, Made
<1>3. /\ d.loading = FALSE /\ d.subject = ds[s].subject /\ d.shown = ds[s].shown
      /\ d.pageIndex = ds[s].pageIndex /\ d.list = ds[s].list /\ d.hasMore = ds[s].hasMore
      /\ d.dataChanged = ds[s].dataChanged
  BY <1>1 DEF Failed, SourceT
<1> HIDE DEF d
<1>4. ds'[s] = d /\ \A t \in Sources : t # s => ds'[t] = ds[t]
  BY <1>1 DEF d
<1>5. /\ DOMAIN reqs' = DOMAIN reqs /\ ReqsStay
      /\ reqs'[r] = e /\ \A x \in DOMAIN reqs : x # r => reqs'[x] = reqs[x]
      /\ \A t : Made(t)' = Made(t) /\ (t # s => ReqsQuiet(t))
  BY <1>2, OneMoves
<1>6. Reads' = Reads
  BY DEF Reads
<1>7. \A t \in Plain : QueuesQuiet(t)
  BY <1>5, <1>6, QuietQueues
<1>8. Bodies(main', later', reqs')
  BY <1>2, <1>5, BodiesMove, BodiesSets
<1>9. Pairs(jobs', reqs', Plain') /\ Asked' /\ FirstPages'
  BY <1>5, PairsSame, FirstPagesStay
<1>10. ASSUME NEW t \in Sources, t # s
       PROVE  ReqsQuiet(t) /\ ds'[t] = ds[t] /\ DataQuiet(t)
  BY <1>4, <1>5, <1>10 DEF DataQuiet, Address, Key
<1>11. \A t \in Fine : t \in Sources /\ t \in Plain
  BY StickyFacts DEF Fine
<1>12. s \in Plain => Open(s)' = {}
  <2>1. s \in Plain => \A x \in Made(s) : x # r => x \in DOMAIN reqs /\ x \notin Open(s)
    BY OpenFacts DEF Made
  <2> QED BY <1>5, <2>1 DEF Open
<1>13. ASSUME s \in Plain'
       PROVE  Firm(s)'
  <2>1. s \in Plain
    BY <1>13, StickyFacts
  <2> QED BY <1>12, <2>1 DEF Firm
<1>14. SUFFICES ASSUME s \in Fine' PROVE Lists(s)'
  BY <1>7, <1>8, <1>9, <1>10, <1>11, <1>13, Frame
<1>15. s \in Plain /\ Lists(s)
  BY <1>14, StickyFacts DEF Calm
<1>16. /\ reqs[r].page = ds[s].pageIndex
       /\ Open(s) = {r} /\ Given(s) \subseteq {r} /\ Open(s)' = {}
  BY <1>12, <1>15, OpenFacts
<1>17. Given(s) = {}
  BY <1>16 DEF Given
<1>18. Lost(s) \subseteq Lost(s)' /\ ds[s].pageIndex \in Lost(s)'
  <2>1. ASSUME NEW p \in Nat, Missed(s, p)
        PROVE  Missed(s, p)'
    <3>1. PICK x \in DOMAIN reqs : /\ reqs[x].src = s /\ reqs[x].page = p
                                   /\ reqs[x].at = "done" /\ reqs[x].body \in {NoBody, Junk}
      BY <2>1 DEF Missed, Asker
    <3>2. x \in DOMAIN reqs' /\ reqs'[x].src = s /\ reqs'[x].page = p
          /\ reqs'[x].at = "done" /\ reqs'[x].body \in {NoBody, Junk}
      BY <1>2, <1>5, <3>1
    <3> QED BY <3>2 DEF Missed, Asker
  <2>2. Missed(s, ds[s].pageIndex)'
    <3> DEFINE p == ds[s].pageIndex
    <3>1. \E x \in DOMAIN reqs' : /\ reqs'[x].src = s /\ reqs'[x].page = p
                                  /\ reqs'[x].at = "done" /\ reqs'[x].body \in {NoBody, Junk}
      BY <1>2, <1>5, <1>16
    <3>2. d.pageIndex = p
      BY <1>3
    <3> QED BY <1>4, <3>1, <3>2 DEF Missed, Asker
  <2>3. ds[s].pageIndex \in Nat
    BY <1>1 DEF SourceT
  <2> QED BY <1>3, <1>4, <2>1, <2>2, <2>3 DEF Lost
<1>19. /\ Given(s)' = {} /\ Waiting(s)' = Waiting(s) /\ Reading(s)' = Reading(s)
       /\ cache'[Address(s)] = cache[Address(s)] /\ Address(s)' = Address(s)
       /\ last'[s] = last[s]
  BY <1>7, <1>15, <1>17 DEF QueuesQuiet, Address, Key
<1>20. Alone(s)'
  BY <1>16 DEF Alone
<1>21. Stored(s)'
  <2>1. Known(s) /\ Known(s)'
    BY <1>17, <1>19 DEF Known
  <2> QED BY <1>3, <1>4, <1>15, <1>17, <1>19, <2>1 DEF Lists, Stored, Starts
<1>22. Pending(s)'
  BY <1>3, <1>4, <1>15, <1>19 DEF Lists, Pending
<1>23. Listed(s)'
  <2>1. Order(d.list, Lost(s)')
    BY <1>3, <1>15, <1>18, OrderKeeps DEF Lists, Listed
  <2>2. ASSUME d.list # <<>>
        PROVE  Place(d, Open(s)', Lost(s)')
    <3>1. Place(ds[s], Open(s), Lost(s)')
      BY <1>3, <1>15, <1>18, <2>2, PlaceKeeps DEF Lists, Listed
    <3>2. LastPage(d) = LastPage(ds[s])
      BY <1>3 DEF LastPage
    <3> QED BY <1>3, <1>16, <1>18, <3>1, <3>2 DEF Place
  <2>3. ds[s].hasMore \/ ds[s].pageIndex # 1 => ds[s].list # <<>>
    BY <1>15 DEF Lists, Listed
  <2> QED BY <1>3, <1>4, <1>19, <2>1, <2>2, <2>3 DEF Listed, Order, Place, Gap, LastPage
<1> QED BY <1>20, <1>21, <1>22, <1>23 DEF Lists

\* An operation that failed ends.
LEMMA EndFailedCalm ==
    ASSUME IInv, Calm, Sticky, NEW r \in DOMAIN reqs, reqs[r].at = "ending", reqs[r].body = NoBody,
           EndFailed(r), UNCHANGED <<jobs, cache, last>>,
           Cached' = Cached, \A x : Answering(x)' <=> Answering(x),
           Range(main') \subseteq Range(main), Range(later') \subseteq Range(later)
    PROVE  Calm'
<1> DEFINE a == reqs[r]
           n == IF a.item THEN a.told + 1 ELSE a.told
           e == [a EXCEPT !.at = "done", !.item = FALSE, !.told = n]
<1>1. /\ ds \in [Sources -> SourceT] /\ reqs \in Seq(RequestT) /\ a \in RequestT /\ Sound(a)
      /\ a.told \in Nat /\ a.src \in Sources /\ a.item \in BOOLEAN
  BY InvFacts, Typed DEF RequestT
<1>2. n \in Nat /\ (a.item => n # 0 /\ a.told = 0 /\ ~a.void)
  BY <1>1 DEF Sound
<1>3. /\ reqs' = [reqs EXCEPT ![r] = e]
      /\ ds' = IF a.item THEN [ds EXCEPT ![a.src] = Failed(ds[a.src])] ELSE ds
  BY <1>1 DEF EndFailed
<1> HIDE DEF n
<1>4. /\ e \in RequestT /\ e.src = a.src /\ e.key = a.key /\ e.page = a.page /\ e.body = a.body
      /\ e.at = "done" /\ e.told = n /\ e.void = a.void /\ e.changed = a.changed
  BY <1>1, <1>2 DEF RequestT
<1> HIDE DEF e
<1>5. CASE a.item
  <2>1. ~Answering(r)
    BY Elements DEF Due
  <2>2. r \in Open(a.src)
    BY <1>2, <1>5 DEF Open, Made
  <2>3. ds' = [ds EXCEPT ![a.src] = Failed(ds[a.src])]
    BY <1>3, <1>5
  <2> QED BY <1>1, <1>2, <1>3, <1>4, <1>5, <2>1, <2>2, <2>3, ToldCalm
<1>6. CASE ~a.item
  <2>1. e.told = a.told /\ ds' = ds
    BY <1>3, <1>4, <1>6 DEF n
  <2>2. /\ DOMAIN reqs' = DOMAIN reqs /\ ReqsStay /\ \A s : ReqsQuiet(s)
        /\ reqs'[r] = e /\ \A x \in DOMAIN reqs : x # r => reqs'[x] = reqs[x]
    BY <1>3, <1>4, <2>1, OneMoves
  <2>3. Bodies(main', later', reqs')
    BY <1>4, <2>2, BodiesMove, BodiesSets
  <2>4. Pairs(jobs', reqs', Plain') /\ Asked'
    BY <2>2, PairsSame
  <2> QED BY <2>1, <2>2, <2>3, <2>4, AllQuiet DEF Reads
<1> QED BY <1>1, <1>5, <1>6

LEMMA FailBlockCalm == ASSUME IInv, Calm, Sticky, FailBlock PROVE Calm'
<1> DEFINE r == Head(main).req
<1>1. /\ RunBlock("failed") /\ Head(main).kind = "failed" /\ EndFailed(r)
      /\ r \in DOMAIN reqs /\ reqs[r].at = "ending"
  BY RunBlockFacts DEF FailBlock, BlockOK, Ending
<1>2. UNCHANGED <<wants, later, jobs, cache, version, heard, last>>
  BY DEF FailBlock
<1>3. /\ Cached' = Cached /\ \A x : Answering(x)' <=> Answering(x)
      /\ Range(main') \subseteq Range(main) /\ Head(main) \in Range(main)
  BY <1>1, <1>2, BlockSets
<1>4. reqs[r].body = NoBody
  BY <1>1, <1>3, BodiesSets
<1> HIDE DEF r
<1> QED BY <1>1, <1>2, <1>3, <1>4, EndFailedCalm

LEMMA FailTimerCalm == ASSUME IInv, Calm, Sticky, FailTimer PROVE Calm'
<1> DEFINE r == Head(later).req
<1>1. /\ RunTimer("fail") /\ Head(later).kind = "fail" /\ EndFailed(r)
      /\ r \in DOMAIN reqs /\ reqs[r].at = "ending"
  BY RunTimerFacts DEF FailTimer, TimerOK
<1>2. UNCHANGED <<wants, main, jobs, cache, version, heard, last>>
  BY DEF FailTimer
<1>3. Range(later') \subseteq Range(later) /\ Head(later) \in Range(later)
  BY <1>1, TimerSets
<1>4. Cached' = Cached /\ (\A x : Answering(x)' <=> Answering(x)) /\ Range(main') = Range(main)
  BY <1>2 DEF Cached, Answering
<1>5. reqs[r].body = NoBody
  BY <1>1, <1>3, BodiesSets
<1> HIDE DEF r
<1> QED BY <1>1, <1>2, <1>3, <1>4, <1>5, EndFailedCalm

LEMMA RefuseTimerCalm == ASSUME IInv, Calm, Sticky, RefuseTimer PROVE Calm'
<1> DEFINE r == Head(later).req
           a == reqs[r]
           e == [a EXCEPT !.told = a.told + 1]
<1>1. /\ RunTimer("answer") /\ r \in DOMAIN reqs /\ Due(a) /\ a.body = Junk
      /\ Idle(r, main, later', jobs)
  BY RunTimerFacts DEF RefuseTimer, TimerOK, Refused
<1>2. Range(later') \subseteq Range(later)
  BY <1>1, TimerSets
<1>3. ~Answering(r)
  <2>1. jobs \in Seq(JobT)
    BY InvFacts DEF Queues
  <2>2. jobs # <<>> => Head(jobs) \in Range(jobs)
    BY <2>1, HeadRange
  <2> HIDE DEF r
  <2>3. /\ \A b \in Range(main) : b.kind # "cached" => b.req # r
        /\ \A j \in Range(jobs) : j.kind = "tell" => j.req # r
    BY <1>1 DEF Idle, Range
  <2> QED BY <2>2, <2>3 DEF Answering
<1>4. /\ reqs' = [reqs EXCEPT ![r] = e] /\ ds' = [ds EXCEPT ![a.src] = Failed(ds[a.src])]
      /\ UNCHANGED <<wants, main, jobs, cache, version, heard, last>>
  BY DEF RefuseTimer
<1> HIDE DEF r
<1>5. a \in RequestT /\ a.src \in Sources
  BY <1>1, InvFacts, Typed DEF RequestT
<1>6. e = [a EXCEPT !.told = 1]
  BY <1>1, <1>5 DEF Due
<1> HIDE DEF e
<1>7. /\ e \in RequestT /\ e.src = a.src /\ e.key = a.key /\ e.page = a.page /\ e.body = a.body
      /\ e.at = "done" /\ e.told = 1
  BY <1>1, <1>5, <1>6 DEF RequestT, Due
<1>8. r \in Open(a.src)
  BY <1>1 DEF Open, Made, Due
<1>9. Cached' = Cached /\ (\A x : Answering(x)' <=> Answering(x)) /\ Range(main') = Range(main)
  BY <1>4 DEF Cached, Answering
<1>10. a.body \in {NoBody, Junk} /\ e.told # 0 /\ Range(main') \subseteq Range(main)
  BY <1>1, <1>7, <1>9
<1> QED BY <1>2, <1>3, <1>4, <1>5, <1>7, <1>8, <1>9, <1>10, ToldCalm

-----------------------------------------------------------------------------
(* Pages reach the list.                                                   *)

LEMMA ItemsFacts ==
    ASSUME NEW b
    PROVE  /\ Items(b) = <<>> \/ (Items(b) = <<b>> /\ b.page \in 1..Pages /\ b.page # 0)
           /\ Items(b) # <<>> => b \notin {NoBody, Junk}
           /\ Starts(Items(b), b)
<1>1. Items(b) = <<>> \/ (Items(b) = <<b>> /\ b.page \in 1..Pages /\ b.page # 0)
  BY DEF Items
<1>2. Items(NoBody) = <<>> /\ Items(Junk) = <<>>
  BY DEF Items, NoBody, Junk
<1>3. <<b>> # <<>> /\ <<b>>[1] = b
  OBVIOUS
<1> QED BY <1>1, <1>2, <1>3 DEF Starts

LEMMA OrderOne ==
    ASSUME NEW b, b.page = 1, NEW lost
    PROVE  Order(<<b>>, lost) /\ <<b>>[Len(<<b>>)].page = 1
BY DEF Order

Behind(list, b) == list \o Items(b)

LEMMA BehindFacts ==
    ASSUME NEW b \in Body \cup {NoBody}
    PROVE  /\ Behind(<<>>, b) = Items(b)
           /\ \A list \in Seq(Body) :
                 /\ Items(b) = <<>> => Behind(list, b) = list
                 /\ Items(b) = <<b>> => Behind(list, b) = Append(list, b)
<1>1. Items(b) \in Seq(Body)
  BY BodyType
<1>2. Behind(<<>>, b) = Items(b)
  BY <1>1 DEF Behind
<1>3. ASSUME NEW list \in Seq(Body), Items(b) = <<>>
      PROVE  Behind(list, b) = list
  BY <1>3 DEF Behind
<1>4. ASSUME NEW list \in Seq(Body), Items(b) = <<b>>
      PROVE  Behind(list, b) = Append(list, b)
  BY <1>1, <1>4 DEF Behind
<1> QED BY <1>2, <1>3, <1>4

LEMMA LoadedList ==
    ASSUME NEW d \in SourceT, NEW list, NEW b
    PROVE  /\ Loaded(d, list, b).list = Behind(list, b)
           /\ ~Loaded(d, list, b).dataChanged
           /\ Loaded(d, list, b).hasMore => Items(b) # <<>>
BY DEF Loaded, Behind, SourceT

LEMMA LoadedRest ==
    ASSUME NEW d \in SourceT, NEW list, NEW b
    PROVE  /\ Loaded(d, list, b).loading = d.loading
           /\ Loaded(d, list, b).shown = d.shown
           /\ Loaded(d, list, b).subject = d.subject
           /\ Loaded(d, list, b).pageIndex = d.pageIndex
BY DEF Loaded, SourceT

\* A data source whose list is read of the cache.
LEMMA CachedBlockAt ==
    ASSUME IInv, Calm, Sticky, CachedBlock, NEW s \in Sources, s = reqs[Head(main).req].src
    PROVE  Calm'
<1> DEFINE b == Head(main)
           c == cache[Address(s)]
           d == IF ds[s].dataChanged THEN Loaded(ds[s], <<>>, b.body) ELSE ds[s]
<1>1. /\ RunBlock("cached") /\ b.req \in DOMAIN reqs /\ b.kind = "cached" /\ b \in BlockT
      /\ main # <<>> /\ main' = Tail(main)
  BY RunBlockFacts DEF CachedBlock
<1>2. /\ ds' = [ds EXCEPT ![s] = d] /\ s = reqs[b.req].src
      /\ UNCHANGED <<wants, reqs, later, jobs, cache, version, heard, last>>
  BY DEF CachedBlock
<1>3. /\ ds \in [Sources -> SourceT] /\ main \in Seq(BlockT)
      /\ b.body \in Body \cup {NoBody}
  BY <1>1, InvFacts, Typed DEF RequestT, BlockT
<1>4. ds[s] \in SourceT
  BY <1>3
<1>5. /\ Cached = Cached' \cup {b} /\ Reads' = Reads
      /\ \A r : Answering(r)' <=> Answering(r)
  BY <1>1, <1>2, MainTailSets DEF Reads
<1>6. Range(main') \subseteq Range(main)
  BY <1>1, <1>3, TailRange
<1>7. b \in Waiting(s)
  BY <1>2, <1>5 DEF Waiting
<1> HIDE DEF b
<1>8. /\ d.loading = ds[s].loading /\ d.shown = ds[s].shown /\ d.subject = ds[s].subject
      /\ d.pageIndex = ds[s].pageIndex
      /\ ~ds[s].dataChanged => d = ds[s]
      /\ ds[s].dataChanged => /\ d.list = Items(b.body) /\ ~d.dataChanged
                              /\ d.hasMore => Items(b.body) # <<>>
  <2>1. Behind(<<>>, b.body) = Items(b.body)
    BY <1>3, BehindFacts
  <2>2. CASE ds[s].dataChanged
    <3> DEFINE e == Loaded(ds[s], <<>>, b.body)
    <3>1. /\ e.list = Behind(<<>>, b.body) /\ ~e.dataChanged
          /\ (e.hasMore => Items(b.body) # <<>>) /\ e.loading = ds[s].loading
          /\ e.shown = ds[s].shown /\ e.subject = ds[s].subject
          /\ e.pageIndex = ds[s].pageIndex
      <4>1. ds[s] \in SourceT
        BY <1>4
      <4> QED BY ONLY <4>1, LoadedList, LoadedRest
    <3> HIDE DEF e
    <3>2. d = e
      BY <2>2 DEF e
    <3> HIDE DEF d
    <3> QED BY <2>1, <2>2, <3>1, <3>2
  <2>3. CASE ~ds[s].dataChanged
    BY <2>3
  <2> QED BY <2>2, <2>3
<1> HIDE DEF d
<1>9. ds'[s] = d /\ \A t \in Sources : t # s => ds'[t] = ds[t]
  BY <1>2, <1>3
<1>10. ReqsStay /\ \A t : ReqsQuiet(t)
  BY <1>2, SameReqs
<1>11. /\ \A t : Made(t)' = Made(t) /\ Open(t)' = Open(t) /\ Lost(t)' = Lost(t)
                 /\ Given(t)' = Given(t) /\ Reading(t)' = Reading(t)
                 /\ Waiting(t)' \subseteq Waiting(t)
       /\ \A t : t # s => Waiting(t)' = Waiting(t)
  <2>1. \A t : Made(t)' = Made(t)
    BY <1>2 DEF Made
  <2>2. \A t : Open(t)' = Open(t)
    BY <1>2, <2>1 DEF Open
  <2>3. \A t : Lost(t)' = Lost(t)
    BY <1>2 DEF Lost, Missed, Asker
  <2>4. \A t : Given(t)' = Given(t)
    BY <1>2, <1>5, <2>1 DEF Given
  <2>5. \A t : Reading(t)' = Reading(t)
    BY <1>2, <1>5 DEF Reading
  <2>6. \A t : Waiting(t)' \subseteq Waiting(t) /\ (t # s => Waiting(t)' = Waiting(t))
    BY <1>2, <1>5 DEF Waiting
  <2> QED BY <2>1, <2>2, <2>3, <2>4, <2>5, <2>6
<1>12. ASSUME NEW t \in Sources, t # s
       PROVE  ReqsQuiet(t) /\ ds'[t] = ds[t] /\ QueuesQuiet(t) /\ DataQuiet(t)
  BY <1>2, <1>9, <1>10, <1>11, <1>12 DEF QueuesQuiet, DataQuiet, Address, Key
<1>13. \A t \in Fine : t \in Sources
  BY DEF Fine
<1>14. Bodies(main', later', reqs')
  BY <1>2, <1>6, BodiesMove, BodiesSets
<1>15. Pairs(jobs', reqs', Plain') /\ Asked'
  BY <1>2, <1>10, PairsSame
<1>16. FirstPages'
  BY <1>2, <1>5, <1>10, FirstPagesStay
<1>17. ASSUME s \in Plain'
       PROVE  Firm(s)'
  <2>1. Firm(s)
    BY <1>17, StickyFacts DEF Calm
  <2>2. \A r \in Open(s) : reqs'[r].page = reqs[r].page /\ reqs'[r].key = reqs[r].key
    BY <1>2
  <2> QED BY <1>8, <1>9, <1>11, <2>1, <2>2, FirmKeeps
<1>18. SUFFICES ASSUME s \in Fine' PROVE Lists(s)'
  BY <1>12, <1>13, <1>14, <1>15, <1>16, <1>17, Frame
<1>19. Lists(s) /\ s \in Plain
  BY <1>18, StickyFacts DEF Calm
<1>20. Items(b.body) # <<>> => b.body.page = 1
  <2>1. b \in Cached /\ Clean(Url[Asker(b.req)])
    BY <1>2, <1>5, <1>18, StickyFacts DEF Asker
  <2> QED BY <2>1 DEF Calm, FirstPages
<1>21. /\ cache'[Address(s)] = c /\ Address(s)' = Address(s)
       /\ last'[s] = last[s] /\ reqs' = reqs
  BY <1>2 DEF Address, Key
<1>22. Alone(s)'
  BY <1>11, <1>19, <1>21 DEF Lists, Alone
<1>23. /\ Known(s)' <=> Known(s)
       /\ Known(s) => b.body = c
       /\ Known(s) /\ ds[s].list # <<>> => Items(c) # <<>>
  BY <1>7, <1>11, <1>19, <1>21 DEF Known, Lists, Stored, Starts
<1>24. Stored(s)'
  <2>1. ASSUME Known(s), d.list # <<>> \/ ~d.dataChanged
        PROVE  Starts(d.list, c)
    <3>1. CASE ds[s].dataChanged
      BY <1>8, <1>23, <2>1, <3>1, ItemsFacts
    <3>2. CASE ~ds[s].dataChanged
      BY <1>8, <1>19, <2>1, <3>2 DEF Lists, Stored
    <3> QED BY <3>1, <3>2
  <2>2. /\ \A r \in Given(s) : reqs[r].body = c
        /\ Given(s) = {} => last[s] \in {NoBody, c}
        /\ Known(s) => \A x \in Waiting(s) : x.body = c
    BY <1>19 DEF Lists, Stored
  <2>3. /\ \A r \in Given(s)' : reqs'[r].body = cache'[Address(s)]
        /\ Given(s)' = {} => last'[s] \in {NoBody, cache'[Address(s)]}
        /\ Known(s)' => \A x \in Waiting(s)' : x.body = cache'[Address(s)]
        /\ Known(s)' /\ (ds'[s].list # <<>> \/ ~ds'[s].dataChanged)
              => Starts(ds'[s].list, cache'[Address(s)])
    BY <1>9, <1>11, <1>21, <1>23, <2>1, <2>2
  <2> QED BY <1>21, <2>3 DEF Stored, Starts
<1>25. Pending(s)'
  <2>1. ~d.dataChanged
    BY <1>8
  <2> QED BY <1>9, <2>1 DEF Pending
<1>26. Listed(s)'
  <2>1. CASE ~ds[s].dataChanged
    <3>1. d = ds[s]
      BY <1>8, <2>1
    <3>2. Listed(s)
      BY <1>19 DEF Lists
    <3>3. /\ ds'[s] = ds[s] /\ Open(s)' = Open(s) /\ Lost(s)' = Lost(s)
      BY <1>9, <1>11, <1>21, <3>1
    <3> QED BY <3>2, <3>3, ListedStays
  <2>2. CASE ds[s].dataChanged
    <3> DEFINE p == ds[s].pageIndex
               f == b.body
    <3>1. p \in Nat /\ p >= 1 /\ d.pageIndex = p
      <4>1. ds[s].pageIndex \in Nat \ {0}
        BY <1>4 DEF SourceT
      <4> QED BY <1>8, <4>1
    <3>2. ASSUME p # 1
          PROVE  d.list # <<>>
      <4>1. Given(s) = {}
        <5>1. \A r \in Given(s) : reqs[r].page = 1 /\ r \in Open(s)
          BY GivenOpen DEF Given
        <5>2. \A r \in Open(s) : reqs[r].page = p
          BY <1>19, OpenFacts
        <5> HIDE DEF p
        <5> QED BY <3>2, <5>1, <5>2
      <4>2. ds[s].list # <<>>
        BY <1>19, <3>2 DEF Lists, Listed
      <4>3. Known(s)
        BY <4>1 DEF Known
      <4> QED BY <1>8, <1>23, <2>2, <4>2, <4>3
    <3>3. ASSUME d.list # <<>>
          PROVE  Order(d.list, Lost(s)) /\ LastPage(d) = 1
      <4>1. d.list = <<f>> /\ f.page = 1 /\ ~d.dataChanged
        BY <1>8, <1>20, <2>2, <3>3, ItemsFacts
      <4>2. Order(<<f>>, Lost(s)) /\ <<f>>[Len(<<f>>)].page = 1
        BY <4>1, OrderOne
      <4> QED BY <4>1, <4>2 DEF LastPage
    <3>4. Order(d.list, Lost(s))
      <4>1. Order(<<>>, Lost(s))
        BY DEF Order
      <4> QED BY <3>3, <4>1
    <3>5. ASSUME d.list # <<>>
          PROVE  Place(d, Open(s), Lost(s))
      <4>1. CASE ds[s].list # <<>>
        <5>1. Place(ds[s], Open(s), Lost(s)) /\ LastPage(ds[s]) = 1
          BY <1>19, <2>2, <4>1 DEF Lists, Listed, LastPage
        <5> QED BY <1>8, <2>2, <3>3, <3>5, <5>1 DEF Place
      <4>2. CASE ds[s].list = <<>>
        <5>1. p = 1
          BY <1>19, <4>2 DEF Lists, Listed
        <5>2. Gap(1, 1, Lost(s))
          BY DEF Gap
        <5> QED BY <1>8, <3>1, <3>3, <3>5, <5>1, <5>2 DEF Place
      <4> QED BY <4>1, <4>2
    <3>6. d.hasMore => d.list # <<>>
      BY <1>8, <2>2
    <3>7. ds'[s] = d /\ Open(s)' = Open(s) /\ Lost(s)' = Lost(s)
      BY <1>9, <1>11, <1>21
    <3> HIDE DEF p, f
    <3>8. d.hasMore \/ d.pageIndex # 1 => d.list # <<>>
      BY <3>1, <3>2, <3>6
    <3> QED BY <3>4, <3>5, <3>7, <3>8 DEF Listed, Order, Place, Gap, LastPage
  <2> QED BY <2>1, <2>2
<1> QED BY <1>22, <1>24, <1>25, <1>26 DEF Lists

LEMMA CachedBlockCalm == ASSUME IInv, Calm, Sticky, CachedBlock PROVE Calm'
<1>1. Head(main).req \in DOMAIN reqs
  BY RunBlockFacts DEF CachedBlock
<1>2. PICK s \in Sources : s = reqs[Head(main).req].src
  BY <1>1, InvFacts, Typed DEF RequestT
<1> QED BY <1>2, CachedBlockAt

\* A page goes behind the list, or after a gap.
LEMMA OrderAppend ==
    ASSUME NEW list \in Seq(Body), list # <<>>, NEW lost, Order(list, lost), NEW b \in Body,
           b.page \in Nat, list[Len(list)].page \in Nat, list[Len(list)].page >= 1,
           list[Len(list)].page < b.page, Gap(list[Len(list)].page, b.page, lost)
    PROVE  /\ Order(Append(list, b), lost)
           /\ Append(list, b) # <<>> /\ Append(list, b)[1] = list[1]
           /\ Append(list, b)[Len(Append(list, b))] = b
<1> DEFINE a == Append(list, b)
           n == Len(list) + 1
<1>1. /\ a # <<>> /\ a[n] = b /\ Len(a) = n /\ a[1] = list[1] /\ n - 1 = Len(list)
      /\ \A i \in DOMAIN a : i \in DOMAIN list \/ i = n
      /\ \A i \in DOMAIN list : a[i] = list[i] /\ (i # 1 => a[i - 1] = list[i - 1])
      /\ a[Len(list)] = list[Len(list)]
  OBVIOUS
<1>2. b.page >= 1
  OBVIOUS
<1> HIDE DEF a, n
<1>3. \A i \in DOMAIN a : a[i].page >= 1
  BY <1>1, <1>2 DEF Order
<1>4. a[1].page = 1
  BY <1>1 DEF Order
<1>5. ASSUME NEW i \in DOMAIN a \ {1}
      PROVE  a[i - 1].page < a[i].page /\ Gap(a[i - 1].page, a[i].page, lost)
  <2>1. CASE i \in DOMAIN list
    BY <1>1, <2>1 DEF Order
  <2>2. CASE i = n
    BY <1>1, <2>2
  <2> QED BY <1>1, <2>1, <2>2
<1>6. Order(a, lost)
  BY <1>3, <1>4, <1>5 DEF Order
<1> QED BY <1>1, <1>6 DEF a

\* What the answer to r makes of the data source it is told.
LEMMA ArrivedFacts ==
    ASSUME NEW d \in SourceT, NEW r
    PROVE  LET e == Arrived(d, r)
               list == IF d.pageIndex = 1 THEN <<>> ELSE d.list
           IN  /\ ~e.loading /\ e.shown = d.shown /\ e.subject = d.subject
               /\ e.pageIndex = d.pageIndex
               /\ d.dataChanged \/ reqs[r].changed =>
                     /\ e.list = Behind(list, reqs[r].body)
                     /\ ~e.dataChanged /\ (e.hasMore => Items(reqs[r].body) # <<>>)
               /\ ~(d.dataChanged \/ reqs[r].changed) =>
                     /\ e.list = d.list /\ e.dataChanged = d.dataChanged
                     /\ e.hasMore = d.hasMore
<1> DEFINE f == [d EXCEPT !.loading = FALSE]
           list == IF d.pageIndex = 1 THEN <<>> ELSE d.list
           e == Arrived(d, r)
<1>1. /\ f \in SourceT /\ f.loading = FALSE /\ f.shown = d.shown /\ f.subject = d.subject
      /\ f.pageIndex = d.pageIndex /\ f.list = d.list /\ f.dataChanged = d.dataChanged
      /\ f.hasMore = d.hasMore
  BY DEF SourceT
<1>2. e = IF d.dataChanged \/ reqs[r].changed THEN Loaded(f, list, reqs[r].body) ELSE f
  BY <1>1 DEF Arrived
<1> HIDE DEF e, f, list
<1>3. CASE d.dataChanged \/ reqs[r].changed
  <2> DEFINE g == Loaded(f, list, reqs[r].body)
  <2>1. /\ g.list = Behind(list, reqs[r].body) /\ ~g.dataChanged
        /\ g.hasMore => Items(reqs[r].body) # <<>>
    BY <1>1, LoadedList
  <2>2. /\ g.loading = f.loading /\ g.shown = f.shown /\ g.subject = f.subject
        /\ g.pageIndex = f.pageIndex
    BY <1>1, LoadedRest
  <2>3. e = g
    BY <1>2, <1>3
  <2> HIDE DEF g
  <2> QED BY <1>1, <1>3, <2>1, <2>2, <2>3 DEF e, list
<1>4. CASE ~(d.dataChanged \/ reqs[r].changed)
  BY <1>1, <1>2, <1>4 DEF e, list
<1> QED BY <1>3, <1>4

LEMMA AnswerBlockAt ==
    ASSUME IInv, Calm, Sticky, AnswerBlock, NEW r \in DOMAIN reqs, r = Head(main).req,
           NEW s \in Sources, s = reqs[r].src
    PROVE  Calm'
<1> DEFINE a == reqs[r]
           e == [a EXCEPT !.told = a.told + 1]
           c == cache[Address(s)]
           d == Arrived(ds[s], r)
<1>1. /\ RunBlock("answer") /\ Head(main).kind = "answer" /\ Due(a)
      /\ main # <<>> /\ main' = Tail(main) /\ Queues(main', later, jobs, heard, reqs)
  BY RunBlockFacts DEF AnswerBlock, BlockOK
<1>2. /\ ds' = [ds EXCEPT ![s] = d] /\ reqs' = [reqs EXCEPT ![r] = e]
      /\ last' = IF a.page = 1 THEN [last EXCEPT ![s] = a.body] ELSE last
      /\ UNCHANGED <<wants, later, jobs, cache, version>>
  BY DEF AnswerBlock
<1>3. /\ ds \in [Sources -> SourceT] /\ main \in Seq(BlockT) /\ jobs \in Seq(JobT)
      /\ last \in [Sources -> Body \cup {NoBody}]
      /\ a \in RequestT /\ a.body \in Body \cup {NoBody}
      /\ \A x \in DOMAIN reqs : x \in Nat
  BY InvFacts, Typed DEF RequestT
<1>4. /\ ds[s] \in SourceT /\ ds[s].pageIndex \in Nat \ {0} /\ ds[s].list \in Seq(Body)
  BY <1>3 DEF SourceT
<1>5. r \in Open(s)
  BY <1>1 DEF Open, Made, Due
<1>6. /\ Cached' = Cached /\ Reads' = Reads /\ ~Answering(r)' /\ Answering(r)
      /\ \A x : x # r => (Answering(x)' <=> Answering(x))
  <2>1. /\ Cached' = Cached
        /\ \A x : x = Head(main).req => ~Answering(x)'
        /\ \A x : Answering(x) <=> (Answering(x)' \/ x = Head(main).req)
    BY <1>1, <1>2, MainTailSets
  <2>2. Reads' = Reads
    BY <1>2 DEF Reads
  <2> QED BY <2>1, <2>2
<1>7. e = [a EXCEPT !.told = 1]
  BY <1>1, <1>3 DEF Due
<1> HIDE DEF e, d
<1>8. /\ e \in RequestT /\ e.src = a.src /\ e.key = a.key /\ e.page = a.page /\ e.body = a.body
      /\ e.at = a.at /\ e.told = 1 /\ e.void = a.void
  BY <1>3, <1>7 DEF RequestT
<1>9. /\ DOMAIN reqs' = DOMAIN reqs /\ ReqsStay
      /\ reqs'[r] = e /\ \A x \in DOMAIN reqs : x # r => reqs'[x] = reqs[x]
      /\ \A t : Made(t)' = Made(t) /\ (t # s => ReqsQuiet(t))
  BY <1>2, <1>8, OneMoves
<1>10. Range(main') \subseteq Range(main)
  BY <1>1, <1>3, TailRange
<1>11. Bodies(main', later', reqs')
  BY <1>2, <1>8, <1>9, <1>10, BodiesMove, BodiesSets
<1>12. Pairs(jobs', reqs', Plain') /\ Asked'
  BY <1>2, <1>9, PairsSame
<1>13. FirstPages'
  BY <1>2, <1>6, <1>9, FirstPagesStay
<1>14. /\ \A x \in Cached : x.req \in DOMAIN reqs
       /\ \A x \in Reads : x.req \in DOMAIN reqs
  BY Elements DEF Cached, Reads
<1>15. /\ \A t : Waiting(t)' = Waiting(t)
       /\ \A t : Reading(t)' = Reading(t)
  BY <1>6, <1>9, <1>14 DEF Waiting, Reading, ReqsStay
<1>16. ASSUME NEW t \in Sources, t # s
       PROVE  ReqsQuiet(t) /\ ds'[t] = ds[t] /\ QueuesQuiet(t) /\ DataQuiet(t)
  <2>1. \A x \in Made(t) : x \in DOMAIN reqs /\ x # r
    BY <1>16 DEF Made
  <2>2. Given(t)' = Given(t)
    BY <1>6, <1>9, <2>1 DEF Given
  <2>3. ds'[t] = ds[t] /\ last'[t] = last[t]
    BY <1>2, <1>3, <1>16
  <2> QED BY <1>2, <1>9, <1>15, <1>16, <2>2, <2>3 DEF QueuesQuiet, DataQuiet, Address, Key
<1>17. ds'[s] = d
  BY <1>2, <1>3
<1>18. /\ ~d.loading /\ d.shown = ds[s].shown /\ d.subject = ds[s].subject
       /\ d.pageIndex = ds[s].pageIndex
       /\ ds[s].dataChanged \/ a.changed =>
             /\ d.list = Behind(IF ds[s].pageIndex = 1 THEN <<>> ELSE ds[s].list, a.body)
             /\ ~d.dataChanged /\ (d.hasMore => Items(a.body) # <<>>)
       /\ ~(ds[s].dataChanged \/ a.changed) =>
             /\ d.list = ds[s].list /\ d.dataChanged = ds[s].dataChanged
             /\ d.hasMore = ds[s].hasMore
  <2>1. ds[s] \in SourceT
    BY <1>4
  <2> QED BY ONLY <2>1, ArrivedFacts DEF d
<1>19. \A t \in Fine : t \in Sources
  BY DEF Fine
<1>20. s \in Plain => Open(s)' = {}
  <2>1. s \in Plain => \A x \in Made(s) : x # r => x \in DOMAIN reqs /\ x \notin Open(s)
    BY <1>5, OpenFacts DEF Made
  <2> QED BY <1>8, <1>9, <2>1 DEF Open
<1>21. ASSUME s \in Plain'
       PROVE  Firm(s)'
  <2>1. s \in Plain
    BY <1>21, StickyFacts
  <2> QED BY <1>20, <2>1 DEF Firm
<1>22. SUFFICES ASSUME s \in Fine' PROVE Lists(s)'
  BY <1>11, <1>12, <1>13, <1>16, <1>19, <1>21, Frame
<1>23. Lists(s) /\ s \in Plain
  BY <1>22, StickyFacts DEF Calm
<1>24. /\ r \in Made(s) /\ a.page = ds[s].pageIndex
       /\ Open(s) = {r} /\ Given(s) \subseteq {r} /\ \A q \in Made(s) : q <= r
  BY <1>5, <1>23, OpenFacts
<1>25. Waiting(s) = {} /\ Reading(s) = {}
  <2>1. /\ \A i \in DOMAIN main' : main'[i].kind = "cached" => r < main'[i].req
        /\ \A i \in DOMAIN jobs : jobs[i].kind = "read" => r < jobs[i].req
    <3>1. Queues(main, later, jobs, heard, reqs)
      BY InvFacts
    <3> QED BY <1>1, <3>1, MainTail
  <2>2. /\ \A x \in Cached' : r < x.req
        /\ \A x \in Reads : r < x.req
    BY <2>1 DEF Cached, Reads, Range
  <2>3. /\ \A x \in Waiting(s) : x \in Cached' /\ x.req \in Made(s) /\ x.req \in Nat
        /\ \A x \in Reading(s) : x \in Reads /\ x.req \in Made(s) /\ x.req \in Nat
    BY <1>3, <1>6, <1>14 DEF Waiting, Reading, Made
  <2>4. r \in Nat
    BY <1>3
  <2> QED BY <1>24, <2>2, <2>3, <2>4
<1>26. Open(s)' = {} /\ Given(s)' = {}
  <2>1. \A x \in Made(s) : x # r => x \in DOMAIN reqs /\ x \notin Open(s) /\ x \notin Given(s)
    BY <1>24 DEF Made
  <2>2. Open(s)' = {}
    BY <1>8, <1>9, <2>1 DEF Open
  <2>3. Given(s)' = {}
    BY <1>6, <1>9, <2>1 DEF Given
  <2> QED BY <2>2, <2>3
<1>27. Lost(s)' = Lost(s)
  <2>1. /\ \A x \in DOMAIN reqs : /\ reqs'[x].src = reqs[x].src /\ reqs'[x].page = reqs[x].page
                                  /\ reqs'[x].at = reqs[x].at /\ reqs'[x].body = reqs[x].body
    BY <1>8, <1>9
  <2> QED BY <1>9, <2>1 DEF Lost, Missed, Asker
<1>28. /\ cache'[Address(s)] = c /\ Address(s)' = Address(s)
       /\ last'[s] = IF a.page = 1 THEN a.body ELSE last[s]
  BY <1>2, <1>3 DEF Address, Key
<1>29. Alone(s)'
  BY <1>26 DEF Alone
<1>30. Items(a.body) # <<>> =>
          Items(a.body) = <<a.body>> /\ a.body.page = a.page /\ a.body \in Body
  <2>1. BodyOK(a)
    BY BodiesSets
  <2> QED BY <1>3, <2>1, ItemsFacts DEF BodyOK
<1>31. ~(ds[s].dataChanged /\ ds[s].list # <<>>)
  BY <1>23, <1>25 DEF Lists, Pending
<1>32. ~d.dataChanged
  BY <1>18
\* What is left to show of the list.
<1>33. SUFFICES /\ Starts(d.list, c)
                /\ a.page = 1 => a.body = c
                /\ a.page # 1 => last[s] \in {NoBody, c}
                /\ d.hasMore \/ d.pageIndex # 1 => d.list # <<>>
                /\ Order(d.list, Lost(s))
                /\ d.list # <<>> => Place(d, {}, Lost(s))
  <2>1. Stored(s)'
    <3> HIDE DEF c
    <3>1. last'[s] \in {NoBody, c}
      BY <1>28, <1>33
    <3>2. /\ Given(s)' = {} /\ last'[s] \in {NoBody, cache'[Address(s)]}
          /\ \A x \in Waiting(s)' : x.body = cache'[Address(s)]
          /\ Starts(ds'[s].list, cache'[Address(s)])
      <4>1. Waiting(s)' = {}
        BY <1>15, <1>25
      <4>2. Starts(ds'[s].list, cache'[Address(s)])
        BY <1>17, <1>28, <1>33
      <4> QED BY <1>26, <1>28, <3>1, <4>1, <4>2
    <3> QED BY <1>28, <3>2 DEF Stored, Starts
  <2>2. Pending(s)'
    BY <1>17, <1>32 DEF Pending
  <2>3. Listed(s)'
    BY <1>17, <1>26, <1>27, <1>28, <1>33, ListedAnew
  <2> QED BY <1>29, <2>1, <2>2, <2>3 DEF Lists
<1>34. CASE a.page = 1
  <2>1. r \in Given(s) /\ a.body = c
    BY <1>4, <1>6, <1>23, <1>24, <1>34 DEF Given, Lists, Stored
  <2>2. CASE ds[s].dataChanged \/ a.changed
    <3>1. d.list = Items(a.body)
      BY <1>3, <1>18, <1>24, <1>34, <2>2, BehindFacts
    <3>2. Starts(d.list, c)
      BY <2>1, <3>1, ItemsFacts
    <3>3. d.list # <<>> => Order(d.list, Lost(s)) /\ LastPage(d) = 1
      <4>1. ASSUME d.list # <<>>
            PROVE  d.list = <<a.body>> /\ a.body.page = 1
        BY <1>30, <1>34, <3>1, <4>1
      <4>2. a.body.page = 1 => Order(<<a.body>>, Lost(s)) /\ <<a.body>>[Len(<<a.body>>)].page = 1
        BY OrderOne
      <4> QED BY <1>32, <4>1, <4>2 DEF LastPage
    <3>4. Order(<<>>, Lost(s))
      BY DEF Order
    <3>5. d.list # <<>> => Place(d, {}, Lost(s))
      BY <1>18, <1>24, <1>34, <3>3 DEF Place, Gap
    <3> QED BY <1>18, <1>24, <1>34, <2>1, <2>2, <3>1, <3>2, <3>3, <3>4, <3>5
  <2>3. CASE ~(ds[s].dataChanged \/ a.changed)
    <3>1. Known(s)
      BY <1>24, <2>3 DEF Known
    <3>2. d.list = ds[s].list /\ d.hasMore = ds[s].hasMore
      BY <1>18, <2>3
    <3>3. Starts(d.list, c)
      BY <1>4, <1>23, <2>3, <3>1, <3>2 DEF Lists, Stored
    <3>4. Order(d.list, Lost(s)) /\ (d.hasMore => d.list # <<>>)
      BY <1>4, <1>23, <3>2 DEF Lists, Listed
    <3>5. ASSUME d.list # <<>>
          PROVE  Place(d, {}, Lost(s))
      <4>1. LastPage(ds[s]) \in Nat /\ LastPage(ds[s]) >= 1 /\ LastPage(ds[s]) <= ds[s].pageIndex
        BY <1>4, <1>23, <3>2, <3>4, <3>5, LastPageType DEF Lists, Listed, Place
      <4>2. LastPage(d) = LastPage(ds[s])
        BY <1>32, <2>3, <3>2 DEF LastPage
      <4>3. LastPage(d) = 1
        BY <1>24, <1>34, <4>1, <4>2
      <4> QED BY <1>18, <1>24, <1>34, <4>3 DEF Place, Gap
    <3> QED BY <1>18, <1>24, <1>34, <2>1, <3>3, <3>4, <3>5
  <2> QED BY <2>2, <2>3
<1>35. CASE a.page # 1
  <2> DEFINE l == ds[s].list
             p == ds[s].pageIndex
             n == l[Len(l)].page
  <2>1. Given(s) = {} /\ Known(s)
    BY <1>24, <1>35 DEF Given, Known
  <2>2. l # <<>> /\ ~ds[s].dataChanged
    BY <1>4, <1>23, <1>24, <1>31, <1>35 DEF Lists, Listed
  <2>3. Starts(l, c) /\ last[s] \in {NoBody, c}
    BY <1>4, <1>23, <2>1, <2>2 DEF Lists, Stored
  <2>4. a.changed
    BY <1>4, <1>5, <1>23, <2>1 DEF Lists, Alone
  <2>5. Order(l, Lost(s)) /\ n \in Nat /\ n >= 1
    BY <1>4, <1>23, <2>2, LastPageType DEF Lists, Listed
  <2>6. LastPage(ds[s]) = n
    BY <2>2 DEF LastPage
  <2>7. n < p /\ Gap(n, p, Lost(s))
    BY <1>4, <1>5, <1>23, <1>24, <1>35, <2>2, <2>6 DEF Lists, Listed, Place
  <2>8. d.list = Behind(l, a.body) /\ (d.hasMore => Items(a.body) # <<>>)
    BY <1>18, <1>24, <1>35, <2>4
  <2> HIDE DEF n
  <2>9. CASE Items(a.body) = <<>>
    <3>1. d.list = l /\ ~d.hasMore
      BY <1>3, <1>4, <2>8, <2>9, BehindFacts
    <3>2. LastPage(d) = n
      BY <1>32, <3>1 DEF LastPage, n
    <3>3. Place(d, {}, Lost(s))
      <4>1. d.pageIndex = p /\ n <= p
        <5>1. p \in Nat /\ d.pageIndex = p
          BY <1>4, <1>18
        <5> HIDE DEF p
        <5> QED BY <2>5, <2>7, <5>1
      <4> QED BY <1>32, <2>7, <3>1, <3>2, <4>1 DEF Place
    <3> QED BY <1>35, <2>2, <2>3, <2>5, <3>1, <3>3
  <2>10. CASE Items(a.body) # <<>>
    <3>1. a.body \in Body /\ a.body.page = p /\ Items(a.body) = <<a.body>>
      BY <1>24, <1>30, <2>10
    <3>2. d.list = Append(l, a.body)
      BY <1>3, <1>4, <2>8, <3>1, BehindFacts
    <3>3. /\ Order(Append(l, a.body), Lost(s))
          /\ Append(l, a.body) # <<>> /\ Append(l, a.body)[1] = l[1]
          /\ Append(l, a.body)[Len(Append(l, a.body))] = a.body
      <4>1. p \in Nat /\ l \in Seq(Body)
        BY <1>4
      <4> HIDE DEF l, p
      <4> QED BY <2>2, <2>5, <2>7, <3>1, <4>1, OrderAppend DEF n
    <3>4. LastPage(d) = p
      BY <1>32, <3>1, <3>2, <3>3 DEF LastPage
    <3>5. Place(d, {}, Lost(s))
      <4>1. d.pageIndex = p /\ p \in Nat
        BY <1>4, <1>18
      <4> HIDE DEF p
      <4> QED BY <3>4, <4>1 DEF Place, Gap
    <3>6. Starts(d.list, c)
      BY <2>2, <2>3, <3>2, <3>3 DEF Starts
    <3> QED BY <1>35, <2>3, <3>2, <3>3, <3>5, <3>6
  <2> QED BY <2>9, <2>10
<1> QED BY <1>34, <1>35

LEMMA AnswerBlockCalm == ASSUME IInv, Calm, Sticky, AnswerBlock PROVE Calm'
<1>1. PICK r \in DOMAIN reqs : r = Head(main).req
  BY RunBlockFacts DEF AnswerBlock
<1>2. PICK s \in Sources : s = reqs[r].src
  BY InvFacts, Typed DEF RequestT
<1> QED BY <1>1, <1>2, AnswerBlockAt

-----------------------------------------------------------------------------
(* The serial queue.                                                       *)

LEMMA ReadJobAt ==
    ASSUME IInv, Calm, Sticky, ReadJob, NEW n \in DOMAIN reqs, n = Head(jobs).req,
           NEW s \in Sources, s = reqs[n].src
    PROVE  Calm'
<1> DEFINE j == Head(jobs)
           c == cache[j.key]
           b == Block("cached", n, c)
<1>1. /\ j.kind = "read" /\ j \in JobT /\ Has(s, j.key)
      /\ Pairs(jobs', reqs, Plain) /\ Range(jobs') \subseteq Range(jobs)
      /\ Reads = Reads' \cup {j}
      /\ IF c = NoBody THEN main' = main /\ Cached' = Cached
         ELSE Range(main') = Range(main) \cup {b} /\ Cached' = Cached \cup {b}
      /\ \A r \in DOMAIN reqs :
            reqs[r].page = 1 /\ reqs[r].src \in Plain => (Answering(r)' <=> Answering(r))
  BY ReadJobSets
<1>2. UNCHANGED <<ds, wants, reqs, later, cache, version, heard, last>>
  BY DEF ReadJob
<1>3. b.kind = "cached" /\ b.req = n /\ b.body = c
  BY DEF Block
<1>4. j.req = n
  OBVIOUS
<1> HIDE DEF j, b, c
<1>5. \A x \in DOMAIN reqs : x \in Nat
  BY InvFacts, Typed
<1>6. /\ ReqsStay /\ \A t : ReqsQuiet(t) /\ Made(t)' = Made(t) /\ Open(t)' = Open(t)
                            /\ Lost(t)' = Lost(t)
      /\ \A t \in Plain : Given(t)' = Given(t)
  <2>1. ReqsStay /\ \A t : ReqsQuiet(t)
    BY <1>2, SameReqs
  <2>2. \A t : Made(t)' = Made(t)
    BY <1>2 DEF Made
  <2>3. \A t : Open(t)' = Open(t) /\ Lost(t)' = Lost(t)
    BY <1>2, <2>2 DEF Open, Lost, Missed, Asker
  <2>4. \A t \in Plain : Given(t)' = Given(t)
    <3>1. \A t : \A r \in Made(t) : r \in DOMAIN reqs /\ reqs[r].src = t
      BY DEF Made
    <3> QED BY <1>1, <1>2, <2>2, <3>1 DEF Given
  <2> QED BY <2>1, <2>2, <2>3, <2>4
<1>7. /\ c = NoBody => Waiting(s)' = Waiting(s)
      /\ c # NoBody => Waiting(s)' = Waiting(s) \cup {b}
      /\ \A t : t # s => Waiting(t)' = Waiting(t)
      /\ \A t : t # s => Reading(t)' = Reading(t)
  BY <1>1, <1>2, <1>3, <1>4 DEF Waiting, Reading
<1>8. ASSUME NEW t \in Fine, t # s
      PROVE  QueuesQuiet(t) /\ DataQuiet(t)
  <2>1. t \in Plain
    BY StickyFacts
  <2> QED BY <1>2, <1>6, <1>7, <1>8, <2>1 DEF QueuesQuiet, DataQuiet, Address, Key
<1>9. FirstPages'
  <2>1. CacheIsFirstPage'
    BY <1>2 DEF Calm, FirstPages, CacheIsFirstPage, Keys, Key
  <2>2. Clean(Url[s]) /\ Items(c) # <<>> => c.page = 1
    <3>1. j.key \in Keys /\ j.key.url = Url[s]
      BY <1>1 DEF JobT, Has, Key
    <3>2. Clean(Url[s]) => c \in {NoBody, Junk} \/ c.page = 1
      BY <3>1 DEF Calm, FirstPages, CacheIsFirstPage, c, Clean, Plain
    <3> QED BY <3>2, ItemsFacts
  <2>3. ASSUME NEW x \in Cached', Clean(Url[Asker(x.req)])', Items(x.body) # <<>>
        PROVE  x.body.page = 1
    <3>1. Clean(Url[reqs[x.req].src])
      BY <1>2, <2>3, StickyFacts DEF Clean, Asker
    <3>2. CASE x \in Cached
      BY <2>3, <3>1, <3>2 DEF Calm, FirstPages, Asker
    <3>3. CASE x \notin Cached
      <4>1. x = b
        BY <1>1, <3>3
      <4> QED BY <1>3, <2>2, <2>3, <3>1, <4>1
    <3> QED BY <3>2, <3>3
  <2> QED BY <2>1, <2>3 DEF FirstPages, Items
<1>10. Bodies(main', later', reqs')
  <2>1. \A x \in Range(main') : x \in Range(main) \/ x.kind = "cached"
    BY <1>1, <1>3
  <2> QED BY <1>2, <2>1, BodiesMove, BodiesSets
<1>11. Pairs(jobs', reqs', Plain') /\ Asked'
  <2>1. Pairs(jobs', reqs', Plain')
    BY <1>1, <1>2, PairsReqs, StickyFacts
  <2> QED BY <1>1, <1>6, <2>1, AskedStay
<1>12. ASSUME s \in Plain'
       PROVE  Firm(s)'
  <2>1. Firm(s)
    BY <1>12, StickyFacts DEF Calm
  <2> QED BY <1>2, <1>6, <2>1, FirmQuiet
<1>13. SUFFICES ASSUME s \in Fine' PROVE Lists(s)'
  BY <1>2, <1>6, <1>8, <1>9, <1>10, <1>11, <1>12, Frame
<1>14. Lists(s) /\ s \in Plain /\ s \in Fine /\ j.key = Address(s)
  <2>1. ds[s].subject = 1
    BY <1>13, StickyFacts
  <2>2. j.key = Address(s)
    BY <1>1, <2>1 DEF Has, Address
  <2> QED BY <1>13, <2>2, StickyFacts DEF Calm
<1>15. Given(s) = {}
  <2>1. \A x \in Range(main) : x.kind = "answer" => x.req < n
    BY RunJobFacts DEF ReadJob, Range
  <2>2. SUFFICES ASSUME NEW r \in Given(s) PROVE FALSE
    OBVIOUS
  <2>3. r \in Open(s) /\ Answering(r) /\ r \in DOMAIN reqs
    BY GivenOpen DEF Given, Made
  <2>4. n \in Made(s)
    BY DEF Made
  <2>5. n <= r
    BY <1>14, <2>3, <2>4, OpenFacts
  <2>6. r < n
    BY <1>1, <2>1, <2>3 DEF Answering, j
  <2> QED BY <1>5, <2>3, <2>5, <2>6
<1>16. /\ cache[Address(s)] = c /\ cache'[Address(s)] = c /\ Address(s)' = Address(s)
       /\ ds'[s] = ds[s] /\ last'[s] = last[s] /\ reqs' = reqs /\ Given(s)' = {}
  BY <1>2, <1>6, <1>14, <1>15 DEF Address, Key, c
<1>17. Alone(s)'
  BY <1>6, <1>14, <1>15, <1>16 DEF Lists, Alone
<1>18. Known(s) /\ Known(s)'
  BY <1>15, <1>16 DEF Known
<1>19. Stored(s)'
  <2>1. /\ last[s] \in {NoBody, c} /\ \A x \in Waiting(s) : x.body = c
        /\ ds[s].list # <<>> \/ ~ds[s].dataChanged => Starts(ds[s].list, c)
    BY <1>14, <1>15, <1>16, <1>18 DEF Lists, Stored
  <2>2. \A x \in Waiting(s)' : x.body = c
    BY <1>3, <1>7, <2>1
  <2> QED BY <1>16, <2>1, <2>2 DEF Stored, Starts
<1>20. Pending(s)'
  <2>1. ASSUME ds[s].dataChanged, ds[s].list # <<>>
        PROVE  Waiting(s)' # {}
    <3>1. Starts(ds[s].list, c)
      BY <1>14, <1>16, <1>18, <2>1 DEF Lists, Stored
    <3>2. c # NoBody
      BY <2>1, <3>1, ItemsFacts DEF Starts
    <3> QED BY <1>7, <3>2
  <2>2. last[s] # NoBody /\ ds[s].list = <<>> => ~ds[s].dataChanged
    BY <1>14 DEF Lists, Pending
  <2> QED BY <1>16, <2>1, <2>2 DEF Pending
<1>21. Listed(s)'
  <2>1. Listed(s)
    BY <1>14 DEF Lists
  <2> QED BY <1>6, <1>16, <2>1, ListedStays
<1> QED BY <1>17, <1>19, <1>20, <1>21 DEF Lists

LEMMA ReadJobCalm == ASSUME IInv, Calm, Sticky, ReadJob PROVE Calm'
<1>1. PICK n \in DOMAIN reqs : n = Head(jobs).req
  BY RunJobFacts DEF ReadJob
<1>2. PICK s \in Sources : s = reqs[n].src
  BY InvFacts, Typed DEF RequestT
<1> QED BY <1>1, <1>2, ReadJobAt

LEMMA WriteJobAt ==
    ASSUME IInv, Calm, Sticky, WriteJob, NEW r \in DOMAIN reqs, r = Head(jobs).req,
           NEW s \in Sources, s = reqs[r].src
    PROVE  Calm'
<1> DEFINE a == reqs[r]
           k == Head(jobs).key
           c == cache[k]
           n == Changed(c, a.body)
           e == [a EXCEPT !.changed = n]
<1>1. /\ k \in Keys /\ Has(s, k) /\ Due(a) /\ Pairs(jobs', reqs, Plain)
      /\ s \in Plain => a.page = 1 /\ k = a.key
      /\ Range(jobs') \subseteq Range(jobs)
      /\ Reads' = Reads /\ Cached' = Cached /\ ~Answering(r)
      /\ \A x \in DOMAIN reqs : reqs[x].page = 1 /\ reqs[x].src \in Plain
            => (Answering(x)' <=> (Answering(x) \/ x = r))
  BY WriteJobSets DEF JobT
<1>2. /\ reqs' = [reqs EXCEPT ![r] = e] /\ cache' = [cache EXCEPT ![k] = a.body]
      /\ UNCHANGED <<ds, wants, main, later, version, heard, last>>
  BY DEF WriteJob
<1>3. /\ a \in RequestT /\ a.body \in Body \cup {NoBody} /\ n \in BOOLEAN
      /\ cache \in [Keys -> Body \cup {NoBody}]
  BY InvFacts, Typed DEF RequestT, Changed
<1>4. n = FALSE => a.body = c
  BY DEF Changed
<1> HIDE DEF n, c, k
<1>5. /\ e \in RequestT /\ e.src = a.src /\ e.key = a.key /\ e.page = a.page /\ e.body = a.body
      /\ e.at = a.at /\ e.told = a.told /\ e.void = a.void /\ e.changed = n
  BY <1>3 DEF RequestT
<1> HIDE DEF e
<1>6. /\ DOMAIN reqs' = DOMAIN reqs /\ ReqsStay
      /\ reqs'[r] = e /\ \A x \in DOMAIN reqs : x # r => reqs'[x] = reqs[x]
      /\ \A t : Made(t)' = Made(t) /\ (t # s => ReqsQuiet(t))
  BY <1>2, <1>5, OneMoves
<1>7. \A x \in DOMAIN reqs : /\ reqs'[x].src = reqs[x].src /\ reqs'[x].page = reqs[x].page
                             /\ reqs'[x].key = reqs[x].key
                             /\ reqs'[x].at = reqs[x].at /\ reqs'[x].body = reqs[x].body
                             /\ reqs'[x].told = reqs[x].told /\ reqs'[x].void = reqs[x].void
  BY <1>5, <1>6
<1>8. k.url = Url[s] /\ cache'[k] = a.body /\ \A x \in Keys : x # k => cache'[x] = cache[x]
  BY <1>1, <1>2, <1>3 DEF Has, Key
<1>9. \A t : Open(t)' = Open(t) /\ Lost(t)' = Lost(t) /\ Waiting(t)' = Waiting(t)
             /\ Reading(t)' = Reading(t)
  <2>1. \A t : \A x \in Made(t) : x \in DOMAIN reqs
    BY DEF Made
  <2>2. \A t : Open(t)' = Open(t)
    BY <1>6, <1>7, <2>1 DEF Open
  <2>3. \A t : Lost(t)' = Lost(t)
    BY <1>6, <1>7 DEF Lost, Missed, Asker
  <2>4. /\ \A x \in Cached : x.req \in DOMAIN reqs
        /\ \A x \in Reads : x.req \in DOMAIN reqs
    BY Elements DEF Cached, Reads
  <2>5. /\ \A t : Waiting(t)' = Waiting(t)
        /\ \A t : Reading(t)' = Reading(t)
    BY <1>1, <1>6, <2>4 DEF Waiting, Reading, ReqsStay
  <2> QED BY <2>2, <2>3, <2>5
\* A list that nobody shares its template with has another address.
<1>10. ASSUME NEW t \in Fine, t # s
       PROVE  QueuesQuiet(t) /\ DataQuiet(t)
  <2>1. t \in Plain /\ t \in Sources /\ \A u \in Sources : Url[u] = Url[t] => u = t
    BY StickyFacts DEF Fine
  <2>2. Address(t).url = Url[t] /\ Address(t) \in Keys /\ Address(t)' = Address(t)
    BY <2>1, KeyType, PageAssumption DEF Address, Key
  <2>3. Address(t) # k
    BY <1>8, <1>10, <2>1, <2>2
  <2>4. DataQuiet(t)
    BY <1>2, <1>8, <2>2, <2>3 DEF DataQuiet
  <2>5. \A x \in Made(t) : x \in DOMAIN reqs /\ x # r /\ reqs[x].src \in Plain
    BY <1>10, <2>1 DEF Made
  <2>6. Given(t)' = Given(t)
    BY <1>1, <1>6, <1>7, <2>5 DEF Given
  <2> QED BY <1>9, <2>4, <2>6 DEF QueuesQuiet
<1>11. FirstPages'
  <2>1. s \in Plain => a.body \in {NoBody, Junk} \/ (a.body.page = 1 /\ a.body.key = k)
    <3>1. BodyOK(a)
      BY BodiesSets
    <3> QED BY <1>1, <3>1 DEF BodyOK
  <2>2. ASSUME NEW x \in Keys, \A t \in Sources : Url[t] = x.url => ~ds[t].stale
        PROVE  cache'[x] \in {NoBody, Junk} \/ (cache'[x].page = 1 /\ cache'[x].key = x)
    <3>1. CASE x = k
      BY <1>8, <2>1, <2>2, <3>1 DEF Plain
    <3>2. CASE x # k
      BY <1>8, <2>2, <3>2 DEF Calm, FirstPages, CacheIsFirstPage
    <3> QED BY <3>1, <3>2
  <2>3. CacheIsFirstPage'
    BY <1>2, <2>2 DEF CacheIsFirstPage, Keys, Key
  <2>4. ASSUME NEW x \in Cached', Clean(Url[Asker(x.req)])', Items(x.body) # <<>>
        PROVE  x.body.page = 1
    <3>1. x \in Cached /\ x.req \in DOMAIN reqs
      BY <1>1, Elements DEF Cached
    <3>2. Clean(Url[Asker(x.req)])
      BY <1>7, <2>4, <3>1, StickyFacts DEF Clean, Asker
    <3> QED BY <2>4, <3>1, <3>2 DEF Calm, FirstPages
  <2> QED BY <2>3, <2>4 DEF FirstPages, Items
<1>12. Bodies(main', later', reqs')
  BY <1>2, <1>6, <1>7, BodiesMove, BodiesSets
<1>13. Pairs(jobs', reqs', Plain') /\ Asked'
  <2>1. \A i \in DOMAIN jobs' : jobs'[i].req \in DOMAIN reqs
    BY RunJobFacts DEF WriteJob, Queues, Carried, JobOK
  <2>2. Pairs(jobs', reqs', Plain')
    BY <1>1, <1>6, <2>1, PairsStay
  <2> QED BY <1>1, <1>6, <2>2, AskedStay
<1>14. ASSUME s \in Plain'
       PROVE  Firm(s)'
  <2>1. Firm(s)
    BY <1>14, StickyFacts DEF Calm
  <2>2. \A x \in Open(s) : reqs'[x].page = reqs[x].page /\ reqs'[x].key = reqs[x].key
    BY <1>7 DEF Open, Made
  <2> QED BY <1>2, <1>6, <1>9, <2>1, <2>2, FirmKeeps
<1>15. SUFFICES ASSUME s \in Fine' PROVE Lists(s)'
  BY <1>2, <1>6, <1>10, <1>11, <1>12, <1>13, <1>14, Frame
<1>16. /\ Lists(s) /\ s \in Plain /\ k = Address(s) /\ a.page = 1
  <2>1. ds[s].subject = 1
    BY <1>15, StickyFacts
  <2>2. k = Address(s)
    BY <1>1, <2>1 DEF Has, Address
  <2> QED BY <1>1, <1>15, <2>2, StickyFacts DEF Calm
<1>17. r \in Open(s)
  BY <1>1 DEF Open, Made, Due
<1>18. Open(s) = {r} /\ Given(s) = {}
  BY <1>1, <1>16, <1>17, OpenFacts DEF Given
<1>19. Open(s)' = {r} /\ Given(s)' = {r}
  <2>1. \A x \in Made(s) : x \in DOMAIN reqs /\ reqs[x].src = s
    BY DEF Made
  <2>2. r \in Made(s)
    BY DEF Made
  <2>3. Given(s)' = Given(s) \cup {r}
    BY <1>1, <1>6, <1>7, <1>16, <2>1, <2>2 DEF Given
  <2> QED BY <1>9, <1>18, <2>3
<1>20. /\ Address(s)' = Address(s) /\ ds'[s] = ds[s] /\ last'[s] = last[s]
       /\ cache[Address(s)] = c /\ cache'[Address(s)] = a.body
  BY <1>2, <1>8, <1>16 DEF Address, Key, c
<1>21. Alone(s)'
  BY <1>19, AloneAnswering
<1>22. Stored(s)'
  <2>1. Known(s)
    BY <1>18 DEF Known
  <2>2. Known(s)' => a.body = c
    BY <1>3, <1>4, <1>5, <1>6, <1>19 DEF Known
  <2>3. /\ \A x \in Waiting(s) : x.body = c
        /\ ds[s].list # <<>> \/ ~ds[s].dataChanged => Starts(ds[s].list, c)
    BY <1>16, <1>20, <2>1 DEF Lists, Stored
  <2>4. reqs'[r].body = a.body
    BY <1>5, <1>6
  <2> QED BY <1>9, <1>19, <1>20, <2>2, <2>3, <2>4 DEF Stored, Starts
<1>23. Pending(s)'
  BY <1>9, <1>16, <1>20 DEF Lists, Pending
<1>24. Listed(s)'
  <2>1. Listed(s) /\ Open(s)' = Open(s) /\ Lost(s)' = Lost(s)
    BY <1>9, <1>16 DEF Lists
  <2> QED BY <1>20, <2>1, ListedStays
<1> QED BY <1>21, <1>22, <1>23, <1>24 DEF Lists

LEMMA WriteJobCalm == ASSUME IInv, Calm, Sticky, WriteJob PROVE Calm'
<1>1. PICK r \in DOMAIN reqs : r = Head(jobs).req
  BY RunJobFacts DEF WriteJob
<1>2. PICK s \in Sources : s = reqs[r].src
  BY InvFacts, Typed DEF RequestT
<1> QED BY <1>1, <1>2, WriteJobAt

-----------------------------------------------------------------------------
(* The invariant and the lists.                                            *)

LEMMA InitCalm == ASSUME Init PROVE Calm
<1>1. /\ reqs = <<>> /\ main = <<>> /\ later = <<>> /\ jobs = <<>>
      /\ ds = [s \in Sources |-> NewSource]
      /\ last = [s \in Sources |-> NoBody]
      /\ \A k \in Keys : cache[k] \in Remembered(k)
  BY DEF Init
<1>2. DOMAIN reqs = {} /\ Range(main) = {} /\ Range(later) = {} /\ Range(jobs) = {}
  BY <1>1 DEF Range
<1>3. Bodies(main, later, reqs)
  BY <1>2 DEF Bodies
<1>4. Pairs(jobs, reqs, Plain) /\ Asked
  BY <1>1, <1>2 DEF Pairs, Asked
<1>5. FirstPages
  <2>1. \A k \in Keys : cache[k] \in {NoBody, Junk} \/ (cache[k].page = 1 /\ cache[k].key = k)
    <3>1. SUFFICES ASSUME NEW k \in Keys
                   PROVE  cache[k] \in {NoBody, Junk} \/ (cache[k].page = 1 /\ cache[k].key = k)
      OBVIOUS
    <3> DEFINE f == [key |-> k, page |-> 1, ver |-> 1]
    <3>2. f.page = 1 /\ f.key = k
      OBVIOUS
    <3>3. cache[k] \in {NoBody, Junk, f}
      BY <1>1 DEF Remembered
    <3> HIDE DEF f
    <3> QED BY <3>2, <3>3
  <2> QED BY <1>2, <2>1 DEF FirstPages, CacheIsFirstPage, Cached
<1>6. ASSUME NEW s \in Sources
      PROVE  Firm(s) /\ Lists(s)
  <2>1. /\ ds[s].subject = 1 /\ ds[s].pageIndex = 1 /\ ds[s].dataChanged /\ ~ds[s].hasMore
        /\ ds[s].list = <<>> /\ last[s] = NoBody
    BY <1>1 DEF NewSource
  <2>2. Open(s) = {} /\ Given(s) = {} /\ Waiting(s) = {}
    BY <1>2 DEF Open, Given, Made, Waiting, Cached
  <2>3. Firm(s) /\ Alone(s)
    BY <2>2 DEF Firm, Alone
  <2>4. Stored(s)
    BY <2>1, <2>2 DEF Stored
  <2>5. Pending(s)
    BY <2>1 DEF Pending
  <2>6. Order(<<>>, Lost(s))
    BY DEF Order
  <2>7. Listed(s)
    BY <2>1, <2>6 DEF Listed
  <2> QED BY <2>3, <2>4, <2>5, <2>7 DEF Lists
<1> QED BY <1>3, <1>4, <1>5, <1>6 DEF Calm, Plain, Fine

LEMMA NextCalm == ASSUME IInv, Calm, [Next]_vars PROVE Calm'
<1>1. Sticky
  BY NextSticky
<1>2. ASSUME NEW s \in Sources, Gesture(s) \/ LoadMore(s)
      PROVE  Calm'
  BY <1>1, <1>2, RefreshCalm, ScrollCalm, RebindCalm, LeaveCalm, LoadMoreCalm DEF Gesture
<1>3. CASE RunMain
  BY <1>1, <1>3, StartHttpCalm, FailBlockCalm, TimeoutBlockCalm, LoadedBlockCalm, CachedBlockCalm,
     AnswerBlockCalm DEF RunMain
<1>4. CASE RunLater
  BY <1>1, <1>4, FailTimerCalm, RefuseTimerCalm, AnswerTimerCalm DEF RunLater
<1>5. CASE RunJobs
  BY <1>1, <1>5, ReadJobCalm, WriteJobCalm, TellJobCalm DEF RunJobs
<1>6. ASSUME NEW r \in DOMAIN reqs, StartOp(r) \/ EndOp(r)
      PROVE  Calm'
  BY <1>1, <1>6, StartOpCalm, EndOpCalm
<1>7. CASE Publish
  BY <1>1, <1>7, RestCalm DEF Publish
<1>8. CASE UNCHANGED vars
  BY <1>1, <1>8, RestCalm DEF vars
<1> QED BY <1>2, <1>3, <1>4, <1>5, <1>6, <1>7, <1>8 DEF Next

\* The invariant above: what orderly data sources and those that are not stale know.
THEOREM CalmAlways == Spec => []Calm
<1>1. Init => Calm
  BY InitCalm
<1>2. IInv /\ Calm /\ [Next]_vars => Calm'
  BY NextCalm
<1> QED BY <1>1, <1>2, Inv, PTL DEF Spec

LEMMA CalmLists == ASSUME Calm PROVE ListIsPages
<1>1. ASSUME NEW s \in Sources, Orderly(s)
      PROVE  Order(ds[s].list, Lost(s))
  BY <1>1 DEF Calm, Fine, Lists, Listed
<1>2. \A s \in Sources : \A p \in Lost(s) : Missed(s, p)
  BY DEF Lost
<1> QED BY <1>1, <1>2 DEF ListIsPages, Order, Gap

LEMMA CalmFresh == ASSUME IInv, Calm PROVE FreshWhenResting
<1>1. ASSUME NEW s \in Sources, Orderly(s), Resting(s), last[s] # NoBody
      PROVE  Starts(ds[s].list, last[s])
  <2>1. /\ \A b \in Range(main) : reqs[b.req].src # s
        /\ \A j \in Range(jobs) : reqs[j.req].src # s
    BY <1>1 DEF Resting, Asker, Range
  <2>2. jobs # <<>> => Head(jobs) \in Range(jobs)
    BY InvFacts, HeadRange DEF Queues
  <2>3. Given(s) = {}
    BY <2>1, <2>2 DEF Given, Made, Answering
  <2>4. Lists(s) /\ Known(s)
    BY <1>1, <2>3 DEF Calm, Fine, Known
  <2>5. last[s] = cache[Address(s)]
    BY <1>1, <2>3, <2>4 DEF Lists, Stored
  <2>6. ds[s].list # <<>> \/ ~ds[s].dataChanged
    BY <1>1, <2>4 DEF Lists, Pending
  <2> QED BY <2>4, <2>5, <2>6 DEF Lists, Stored
<1> QED BY <1>1 DEF FreshWhenResting, Starts

\* A list whose requests never crossed is page 1 and the pages behind it in order,
\* none twice, none left out but one that failed.
THEOREM ListIsPagesAlways == Spec => []ListIsPages
<1>1. Calm => ListIsPages
  BY CalmLists
<1> QED BY <1>1, CalmAlways, PTL

\* What is stored under the address of a first page is a first page of it, as long
\* as no requests of a data source that reads its template crossed.
THEOREM CacheIsFirstPageAlways == Spec => []CacheIsFirstPage
<1>1. Calm => CacheIsFirstPage
  BY DEF Calm, FirstPages
<1> QED BY <1>1, CalmAlways, PTL

\* Once all is quiet a list whose requests never crossed begins with the newest first
\* page its data source was given.
THEOREM FreshWhenRestingAlways == Spec => []FreshWhenResting
<1>1. IInv /\ Calm => FreshWhenResting
  BY CalmFresh
<1> QED BY <1>1, Inv, CalmAlways, PTL
==============================================================================
