--------------------------- MODULE APIRequests_proofs ---------------------------
(***************************************************************************)
(* Proofs that VTAPIService answers each request once or takes it back,    *)
(* and tells no screen that is gone, for any number of screens, requests   *)
(* and blocks on the main queue.                                           *)
(***************************************************************************)
EXTENDS APIRequests, TLAPS

-----------------------------------------------------------------------------
(* The invariant, in terms of one request q, one screen, one queue.        *)

Kinds == {"loaded", "failed", "timeout", "response"}

Owes(q) == q.held \/ (~q.cancelled /\ q.listed)

\* What is owed is wanted and was not told; an operation under way is listed unless
\* it is cancelled, and has not been answered.
Sound(q) ==
    /\ q.told \in {0, 1}
    /\ q.told = 1 => q.wanted /\ ~q.held /\ ~q.listed
    /\ (Owes(q) => q.wanted)
    /\ q.op # "ended" => q.told = 0 /\ ~q.held /\ (~q.cancelled => q.listed)

\* A block of this kind for q is on the main queue.
Queued(q, kind) ==
    /\ q.op = "ended" /\ q.told = 0
    /\ kind = "response" => ~q.listed
    /\ kind # "response" => ~q.held /\ (~q.cancelled => q.listed)

\* Request q has number r, and its screen is sc.
Placed(q, r, sc) ==
    /\ q.by \in Sources /\ sc.at = "gone" => ~Owes(q)
    /\ q.by \in Comments => r <= sc.ref /\ (sc.at = "gone" /\ r = sc.ref => ~q.delegate)

Requests(q, scr) ==
    \A r \in DOMAIN q : Sound(q[r]) /\ Placed(q[r], r, scr[q[r].by])

\* A request has one block on the queue at most.
Queue(m, q) ==
    /\ \A i \in DOMAIN m : m[i].req \in DOMAIN q /\ Queued(q[m[i].req], m[i].kind)
    /\ \A i, j \in DOMAIN m : m[i].req = m[j].req => i = j

IInv == TypeOK /\ Requests(req, screen) /\ Queue(main, req)

-----------------------------------------------------------------------------
(* The queue.                                                              *)

\* Whatever is queued for a may be queued for b.
Follows(a, b) == \A kind \in Kinds : Queued(a, kind) => Queued(b, kind)

LEMMA BlockKind ==
    ASSUME NEW m \in Seq(BlockT) PROVE \A i \in DOMAIN m : m[i].kind \in Kinds
<1>1. \A i \in DOMAIN m : m[i] \in BlockT
  OBVIOUS
<1>2. \A b \in BlockT : b.kind \in Kinds
  BY DEF BlockT, Kinds
<1> QED BY <1>1, <1>2

LEMMA SameQueue ==
    ASSUME NEW m \in Seq(BlockT), NEW q, NEW p, Queue(m, q), DOMAIN q \subseteq DOMAIN p,
           \A r \in DOMAIN q : Follows(q[r], p[r])
    PROVE  Queue(m, p)
<1>1. \A i \in DOMAIN m : m[i].kind \in Kinds
  BY BlockKind
<1> QED BY <1>1 DEF Queue, Follows

LEMMA TailQueue ==
    ASSUME NEW m \in Seq(BlockT), m # <<>>, NEW q, NEW p, Queue(m, q), DOMAIN q \subseteq DOMAIN p,
           \A r \in DOMAIN q : r # Head(m).req => Follows(q[r], p[r])
    PROVE  /\ Tail(m) \in Seq(BlockT) /\ Queue(Tail(m), p)
           /\ \A i \in DOMAIN Tail(m) : Tail(m)[i].req # Head(m).req
<1>1. /\ Tail(m) \in Seq(BlockT) /\ Head(m) = m[1] /\ 1 \in DOMAIN m
      /\ \A i \in DOMAIN Tail(m) : i + 1 \in DOMAIN m /\ i + 1 # 1 /\ Tail(m)[i] = m[i + 1]
      /\ \A i, j \in DOMAIN Tail(m) : i + 1 = j + 1 => i = j
  OBVIOUS
<1>2. \A i \in DOMAIN m : m[i].kind \in Kinds
  BY BlockKind
<1>3. \A i \in DOMAIN Tail(m) : Tail(m)[i].req # Head(m).req
  BY <1>1 DEF Queue
<1>4. \A i \in DOMAIN Tail(m) :
         Tail(m)[i].req \in DOMAIN p /\ Queued(p[Tail(m)[i].req], Tail(m)[i].kind)
  BY <1>1, <1>2, <1>3 DEF Queue, Follows
<1>5. \A i, j \in DOMAIN Tail(m) : Tail(m)[i].req = Tail(m)[j].req => i = j
  BY <1>1 DEF Queue
<1> QED BY <1>1, <1>3, <1>4, <1>5 DEF Queue

LEMMA AppendQueue ==
    ASSUME NEW m \in Seq(BlockT), NEW b \in BlockT, NEW q, Queue(m, q),
           b.req \in DOMAIN q, Queued(q[b.req], b.kind),
           \A i \in DOMAIN m : m[i].req # b.req
    PROVE  Append(m, b) \in Seq(BlockT) /\ Queue(Append(m, b), q)
<1>1. /\ Append(m, b) \in Seq(BlockT)
      /\ \A i \in DOMAIN Append(m, b) :
            \/ i \in DOMAIN m /\ Append(m, b)[i] = m[i]
            \/ i = Len(m) + 1 /\ Append(m, b)[i] = b
  OBVIOUS
<1> QED BY <1>1 DEF Queue

-----------------------------------------------------------------------------
(* The requests.                                                           *)

\* A request of a type has no field but these.
LEMMA ReqFields ==
    ASSUME NEW q \in ReqT, Sound(q)
    PROVE  /\ q.cancelled \in BOOLEAN /\ q.listed \in BOOLEAN /\ q.held \in BOOLEAN
           /\ q.wanted \in BOOLEAN /\ q.told \in {0, 1}
           /\ q.op \in {"open", "late", "ended"} /\ q.by \in Screens
BY DEF ReqT, Sound

\* GivenUp, Failed and Held as what they make of each field.
LEMMA GivenUpIs ==
    ASSUME NEW q \in ReqT, Sound(q)
    PROVE  /\ GivenUp(q) \in ReqT /\ Sound(GivenUp(q)) /\ Follows(q, GivenUp(q))
           /\ ~Owes(GivenUp(q))
           /\ GivenUp(q).by = q.by /\ GivenUp(q).delegate = q.delegate
           /\ GivenUp(q).told = q.told /\ (GivenUp(q).wanted <=> q.told = 1)
<1>1. PICK c \in BOOLEAN : c = (q.cancelled \/ q.listed)
  OBVIOUS
<1>2. PICK w \in BOOLEAN : w = (q.told # 0)
  OBVIOUS
<1>3. PICK d \in ReqT : d = [q EXCEPT !.listed = FALSE, !.held = FALSE, !.cancelled = c,
                                     !.wanted = w]
  BY DEF ReqT
<1>4. GivenUp(q) = d
  <2>1. TakenBack(q) = [q EXCEPT !.listed = FALSE, !.held = FALSE, !.cancelled = c]
    BY <1>1 DEF TakenBack
  <2>2. GivenUp(q) = [TakenBack(q) EXCEPT !.wanted = w]
    <3>1. GivenUp(q) = [TakenBack(q) EXCEPT !.wanted = (q.told # 0)]
      BY DEF GivenUp
    <3> QED BY <1>2, <3>1
  <2> QED BY <1>3, <2>1, <2>2
<1>5. /\ d.by = q.by /\ d.delegate = q.delegate /\ d.op = q.op /\ d.told = q.told
      /\ d.cancelled = c /\ d.listed = FALSE /\ d.held = FALSE /\ d.wanted = w
  BY <1>3 DEF ReqT
<1>6. ~Owes(d)
  BY <1>5 DEF Owes
<1>7. w <=> q.told = 1
  <2>1. q.told = 0 \/ q.told = 1
    BY ReqFields
  <2>2. q.told # 0 <=> q.told = 1
    BY <2>1
  <2> QED BY <1>2, <2>2
<1>8. Sound(d)
  BY <1>1, <1>5, <1>6, <1>7 DEF Sound
<1>9. Follows(q, d)
  BY <1>1, <1>5 DEF Follows, Queued
<1> QED BY <1>4, <1>5, <1>6, <1>7, <1>8, <1>9

\* An answer given to q, whose block or timer is done.
LEMMA FailedIs ==
    ASSUME NEW q \in ReqT, Sound(q), q.told = 0, ~q.held, q.listed, ~q.cancelled,
           q.op = "ended"
    PROVE  /\ Failed(q) \in ReqT /\ Sound(Failed(q)) /\ ~Owes(Failed(q))
           /\ Failed(q).by = q.by /\ Failed(q).delegate = q.delegate
           /\ Failed(q).told = 1
<1>1. PICK d \in ReqT : d = [q EXCEPT !.listed = FALSE, !.told = 1]
  BY DEF ReqT
<1>2. Failed(q) = d
  BY <1>1 DEF Failed, ReqT
<1>3. /\ d.by = q.by /\ d.delegate = q.delegate /\ d.op = q.op /\ d.told = 1
      /\ d.cancelled = q.cancelled /\ d.listed = FALSE /\ d.held = q.held /\ d.wanted = q.wanted
  BY <1>1 DEF ReqT
<1>4. ~Owes(d)
  BY <1>3 DEF Owes
<1>5. q.wanted
  BY DEF Sound, Owes
<1>6. Sound(d)
  BY <1>3, <1>4, <1>5 DEF Sound
<1> QED BY <1>2, <1>3, <1>4, <1>6

\* An answer left for the next block.
LEMMA HeldIs ==
    ASSUME NEW q \in ReqT, Sound(q), q.told = 0, q.listed, ~q.cancelled, q.op = "ended"
    PROVE  /\ Held(q) \in ReqT /\ Sound(Held(q)) /\ Queued(Held(q), "response")
           /\ Held(q).by = q.by /\ Held(q).delegate = q.delegate
           /\ Held(q).told = 0 /\ (Held(q).wanted <=> q.wanted)
<1>1. PICK d \in ReqT : d = [q EXCEPT !.listed = FALSE, !.held = TRUE]
  BY DEF ReqT
<1>2. Held(q) = d
  BY <1>1 DEF Held
<1>3. /\ d.by = q.by /\ d.delegate = q.delegate /\ d.op = "ended" /\ d.told = 0
      /\ d.cancelled = q.cancelled /\ d.listed = FALSE /\ d.held = TRUE /\ d.wanted = q.wanted
  BY <1>1 DEF ReqT
<1>4. q.wanted
  BY DEF Sound, Owes
<1>5. d.told # 1
  BY <1>3
<1>6. Sound(d)
  BY <1>3, <1>4, <1>5 DEF Sound
<1>7. Queued(d, "response")
  BY <1>3 DEF Queued
<1> QED BY <1>2, <1>3, <1>6, <1>7

\* The answer that was left is given.
LEMMA GivenIs ==
    ASSUME NEW q \in ReqT, Sound(q), q.told = 0, q.held, ~q.listed, q.op = "ended",
           NEW d, d = [q EXCEPT !.held = FALSE, !.told = @ + 1]
    PROVE  /\ d \in ReqT /\ Sound(d) /\ ~Owes(d)
           /\ d.by = q.by /\ d.delegate = q.delegate /\ d.told = 1
<1>1. PICK e \in ReqT : e = [q EXCEPT !.held = FALSE, !.told = 1]
  BY DEF ReqT
<1>2. d = e
  BY <1>1 DEF ReqT
<1>3. /\ d.by = q.by /\ d.delegate = q.delegate /\ d.op = q.op /\ d.told = 1
      /\ d.cancelled = q.cancelled /\ d.listed = q.listed /\ d.held = FALSE /\ d.wanted = q.wanted
  BY <1>1, <1>2 DEF ReqT
<1>4. ~Owes(d)
  BY <1>3 DEF Owes
<1>5. q.wanted
  BY DEF Sound, Owes
<1>6. Sound(d)
  BY <1>3, <1>4, <1>5 DEF Sound
<1> QED BY <1>2, <1>3, <1>4, <1>6

\* An operation goes on to another state.
LEMMA MovedIs ==
    ASSUME NEW q \in ReqT, Sound(q), NEW o \in {"late", "ended"},
           o = "late" => q.told = 0 /\ ~q.held /\ (~q.cancelled => q.listed),
           NEW d, d = [q EXCEPT !.op = o]
    PROVE  /\ d \in ReqT /\ Sound(d) /\ (Owes(d) <=> Owes(q))
           /\ d.by = q.by /\ d.delegate = q.delegate /\ d.told = q.told /\ d.op = o
           /\ (d.wanted <=> q.wanted) /\ (d.held <=> q.held) /\ (d.listed <=> q.listed)
           /\ (d.cancelled <=> q.cancelled)
<1>1. d \in ReqT
  BY DEF ReqT
<1>2. /\ d.by = q.by /\ d.delegate = q.delegate /\ d.op = o /\ d.told = q.told
      /\ d.cancelled = q.cancelled /\ d.listed = q.listed /\ d.held = q.held /\ d.wanted = q.wanted
  BY DEF ReqT
<1>3. Owes(d) <=> Owes(q)
  BY <1>2 DEF Owes
<1>4. Sound(d)
  BY <1>2, <1>3 DEF Sound
<1> QED BY <1>1, <1>2, <1>3, <1>4

-----------------------------------------------------------------------------
(* The screens.                                                            *)

\* No screen goes, and none remembers another request.
SameScreens(a, b) ==
    \A s \in Screens : b[s].ref = a[s].ref /\ (b[s].at = "gone" <=> a[s].at = "gone")

LEMMA ToldScreens ==
    ASSUME NEW scr \in [Screens -> ScreenT], NEW s \in Screens, NEW good \in BOOLEAN
    PROVE  Told(scr, s, good) \in [Screens -> ScreenT] /\ SameScreens(scr, Told(scr, s, good))
<1>1. CASE s \in Comments /\ scr[s].at # "gone"
  <2>1. PICK d \in ScreenT : d = [scr[s] EXCEPT !.loading = FALSE,
                                                !.at = IF good THEN "popped" ELSE @]
    BY DEF ScreenT
  <2>2. d.ref = scr[s].ref /\ d.at # "gone"
    BY <1>1, <2>1 DEF ScreenT
  <2>3. Told(scr, s, good) = [scr EXCEPT ![s] = d]
    BY <1>1, <2>1 DEF Told
  <2> QED BY <1>1, <2>2, <2>3 DEF SameScreens
<1>2. CASE ~(s \in Comments /\ scr[s].at # "gone")
  <2>1. Told(scr, s, good) = scr
    BY <1>2 DEF Told
  <2> QED BY <2>1 DEF SameScreens
<1> QED BY <1>1, <1>2

LEMMA SamePlaced ==
    ASSUME NEW q \in ReqT, NEW r, NEW a, NEW b, SameScreens(a, b), Placed(q, r, a[q.by])
    PROVE  Placed(q, r, b[q.by])
<1>1. q.by \in Screens
  BY DEF ReqT
<1> QED BY <1>1 DEF SameScreens, Placed

-----------------------------------------------------------------------------
(* What becomes of the requests in a step, for their callers.              *)

Stat(q) == IF q.told = 1 THEN "told" ELSE IF q.wanted THEN "open" ELSE "taken back"

\* All stay what they are, except for the ones in rs.
StaysBut(rs) ==
    /\ DOMAIN req' = DOMAIN req
    /\ \A r \in DOMAIN req \ rs : Stat(req'[r]) = Stat(req[r])

Stays == StaysBut({})

Tells(r) ==
    /\ r \in DOMAIN req /\ StaysBut({r})
    /\ Stat(req[r]) = "open" /\ Stat(req'[r]) = "told"

TakesBack ==
    /\ DOMAIN req' = DOMAIN req
    /\ \A r \in DOMAIN req :
          \/ Stat(req'[r]) = Stat(req[r])
          \/ Stat(req[r]) = "open" /\ Stat(req'[r]) = "taken back"

Asks ==
    /\ DOMAIN req' = DOMAIN req \cup {Len(req) + 1} /\ Len(req) + 1 \in 1..MaxRequests
    /\ Len(req) + 1 \notin DOMAIN req
    /\ \A r \in DOMAIN req : Stat(req'[r]) = Stat(req[r])
    /\ Stat(req'[Len(req) + 1]) = "open"

Shows == Stays \/ TakesBack \/ Asks \/ \E r \in DOMAIN req : Tells(r)

-----------------------------------------------------------------------------
(* One lemma for each kind of step.                                        *)

LEMMA ReqType ==
    ASSUME TypeOK
    PROVE  /\ screen \in [Screens -> ScreenT] /\ req \in Seq(ReqT) /\ main \in Seq(BlockT)
           /\ DOMAIN req = 1..Len(req) /\ Len(req) \in Nat /\ Len(req) <= MaxRequests
           /\ \A r \in DOMAIN req : req[r] \in ReqT /\ req[r].by \in Screens /\ r \in 1..MaxRequests
<1>1. screen \in [Screens -> ScreenT] /\ req \in Seq(ReqT) /\ main \in Seq(BlockT)
      /\ Len(req) <= MaxRequests
  BY DEF TypeOK
<1>2. DOMAIN req = 1..Len(req) /\ Len(req) \in Nat
  BY <1>1
<1>3. \A r \in DOMAIN req : req[r] \in ReqT
  BY <1>1
<1>4. \A q \in ReqT : q.by \in Screens
  BY DEF ReqT
<1>5. \A r \in DOMAIN req : r \in 1..MaxRequests
  BY <1>1, <1>2, APIAssumption
<1> QED BY <1>1, <1>2, <1>3, <1>4, <1>5

\* One request changes, and no screen goes.
LEMMA OneRequest ==
    ASSUME TypeOK, Requests(req, screen), NEW r \in DOMAIN req, NEW d \in ReqT,
           Sound(d), d.by = req[r].by, d.delegate = req[r].delegate, Owes(d) => Owes(req[r]),
           req' = [req EXCEPT ![r] = d], SameScreens(screen, screen')
    PROVE  /\ req' \in Seq(ReqT) /\ Len(req') = Len(req) /\ DOMAIN req' = DOMAIN req
           /\ req'[r] = d /\ \A i \in DOMAIN req : i # r => req'[i] = req[i]
           /\ Requests(req', screen')
<1>1. /\ req \in Seq(ReqT) /\ \A i \in DOMAIN req : req[i] \in ReqT
  BY ReqType
<1>2. /\ req' \in Seq(ReqT) /\ Len(req') = Len(req) /\ DOMAIN req' = DOMAIN req
      /\ req'[r] = d /\ \A i \in DOMAIN req : i # r => req'[i] = req[i]
  BY <1>1
<1>3. ASSUME NEW i \in DOMAIN req, i # r
      PROVE  Sound(req'[i]) /\ Placed(req'[i], i, screen'[req'[i].by])
  <2>1. Sound(req[i]) /\ Placed(req[i], i, screen[req[i].by])
    BY DEF Requests
  <2>2. Placed(req[i], i, screen'[req[i].by])
    BY <1>1, <2>1, SamePlaced
  <2> QED BY <1>2, <1>3, <2>1, <2>2
<1>4. Placed(d, r, screen'[d.by])
  <2>1. Placed(req[r], r, screen[req[r].by])
    BY DEF Requests
  <2>2. Placed(d, r, screen[d.by])
    BY <2>1 DEF Placed
  <2> QED BY <2>2, SamePlaced
<1> QED BY <1>2, <1>3, <1>4 DEF Requests

LEMMA TypeAgain ==
    ASSUME screen' \in [Screens -> ScreenT], req' \in Seq(ReqT), main' \in Seq(BlockT),
           Len(req') <= MaxRequests
    PROVE  TypeOK'
BY DEF TypeOK

\* Send, unless of a comment on an activity, and Query.
LEMMA AskStep ==
    ASSUME IInv, NEW s \in Screens, (Send(s) /\ ~screen[s].activity) \/ Query(s)
    PROVE  IInv' /\ Asks
<1>0. TypeOK /\ Requests(req, screen) /\ Queue(main, req)
  BY DEF IInv
<1>1. /\ screen \in [Screens -> ScreenT] /\ req \in Seq(ReqT) /\ main \in Seq(BlockT)
      /\ DOMAIN req = 1..Len(req) /\ Len(req) \in Nat
      /\ \A r \in DOMAIN req : req[r] \in ReqT /\ req[r].by \in Screens
  BY <1>0, ReqType
<1>2. PICK d \in ReqT : d = [by |-> s, delegate |-> TRUE, op |-> "open", cancelled |-> FALSE,
                             listed |-> TRUE, held |-> FALSE, told |-> 0, wanted |-> TRUE]
  BY DEF ReqT
<1>3. /\ screen[s].at = "top" /\ Len(req) < MaxRequests /\ main' = main
      /\ req' = Append(req, d)
      /\ s \in Comments => screen' = [screen EXCEPT ![s].loading = TRUE, ![s].ref = Len(req) + 1]
      /\ s \in Sources => screen' = screen
  BY <1>2, APIAssumption DEF Send, Query, Request
<1>4. /\ req' \in Seq(ReqT) /\ Len(req') = Len(req) + 1
      /\ DOMAIN req' = DOMAIN req \cup {Len(req) + 1} /\ Len(req) + 1 \notin DOMAIN req
      /\ req'[Len(req) + 1] = d /\ \A r \in DOMAIN req : req'[r] = req[r]
  BY <1>1, <1>3
<1>5. Len(req) + 1 \in 1..MaxRequests /\ Len(req') <= MaxRequests
      /\ \A r \in DOMAIN req : r <= Len(req) + 1 /\ r # Len(req) + 1
  BY <1>1, <1>3, <1>4, APIAssumption
<1>6. Sound(d) /\ d.by = s /\ d.delegate /\ Stat(d) = "open"
  BY <1>2 DEF Sound, Owes, Stat
<1>7. /\ screen' \in [Screens -> ScreenT]
      /\ \A t \in Screens : screen'[t].at = screen[t].at
      /\ \A t \in Screens : t # s => screen'[t] = screen[t]
      /\ s \in Comments => screen'[s].ref = Len(req) + 1
  <2>1. CASE s \in Comments
    <3>0. screen[s] \in ScreenT /\ Len(req) + 1 \in 0..MaxRequests
      BY <1>1, <1>5
    <3>1. PICK n \in 0..MaxRequests : n = Len(req) + 1
      BY <3>0
    <3>2. PICK e \in ScreenT : e = [screen[s] EXCEPT !.loading = TRUE, !.ref = n]
      BY <3>0 DEF ScreenT
    <3>3. e.at = screen[s].at /\ e.ref = Len(req) + 1
      BY <3>0, <3>1, <3>2 DEF ScreenT
    <3>4. screen' = [screen EXCEPT ![s] = e]
      BY <1>1, <1>3, <2>1, <3>1, <3>2
    <3> QED BY <1>1, <3>2, <3>3, <3>4
  <2>2. CASE s \notin Comments
    BY <1>1, <1>3, <2>2 DEF Screens
  <2> QED BY <2>1, <2>2
<1>8. Requests(req', screen')
  <2>1. ASSUME NEW r \in DOMAIN req PROVE Placed(req[r], r, screen'[req[r].by])
    <3>1. Placed(req[r], r, screen[req[r].by])
      BY <1>0 DEF Requests
    <3>2. CASE req[r].by = s
      <4>1. s \in Sources => Placed(req[r], r, screen'[s])
        BY <1>3, <3>1, <3>2
      <4>2. s \in Comments => Placed(req[r], r, screen'[s])
        BY <1>3, <1>5, <1>7, <3>2, APIAssumption DEF Placed
      <4> QED BY <3>2, <4>1, <4>2 DEF Screens
    <3>3. CASE req[r].by # s
      BY <1>1, <1>7, <3>1, <3>3
    <3> QED BY <3>2, <3>3
  <2>2. Placed(d, Len(req) + 1, screen'[s])
    BY <1>1, <1>3, <1>6, <1>7 DEF Placed
  <2> QED BY <1>0, <1>4, <1>6, <2>1, <2>2 DEF Requests
<1>9. Queue(main', req')
  <2>1. \A r \in DOMAIN req : Follows(req[r], req'[r])
    BY <1>4 DEF Follows
  <2> QED BY <1>0, <1>1, <1>3, <1>4, <2>1, SameQueue
<1>10. TypeOK'
  BY <1>1, <1>3, <1>4, <1>5, <1>7, TypeAgain
<1>11. Asks
  BY <1>4, <1>5, <1>6 DEF Asks
<1> QED BY <1>8, <1>9, <1>10, <1>11 DEF IInv

\* Cover, Uncover, Pop and the Send of a comment on an activity.
LEMMA ScreenStep ==
    ASSUME IInv, NEW s \in Screens,
           Cover(s) \/ Uncover(s) \/ Pop(s) \/ (Send(s) /\ screen[s].activity)
    PROVE  IInv' /\ Stays
<1>0. TypeOK /\ Requests(req, screen) /\ Queue(main, req)
  BY DEF IInv
<1>1. /\ screen \in [Screens -> ScreenT] /\ req \in Seq(ReqT) /\ main \in Seq(BlockT)
      /\ Len(req) <= MaxRequests
      /\ \A r \in DOMAIN req : req[r] \in ReqT
  BY <1>0, ReqType
<1>2. /\ req' = req /\ main' = main /\ screen[s].at # "gone"
      /\ \E at \in {"top", "covered", "popped"}, l \in BOOLEAN :
            screen' = [screen EXCEPT ![s] = [screen[s] EXCEPT !.at = at, !.loading = l]]
  <2>0. screen[s] \in ScreenT /\ screen[s].loading \in BOOLEAN
    BY <1>1 DEF ScreenT
  <2>1. CASE Cover(s)
    BY <2>1 DEF Cover
  <2>2. CASE Uncover(s)
    <3>1. screen' = [screen EXCEPT ![s] = [screen[s] EXCEPT !.at = "top",
                                                           !.loading = screen[s].loading]]
      BY <1>1, <2>2 DEF Uncover, ScreenT
    <3> QED BY <2>0, <2>2, <3>1 DEF Uncover
  <2>3. CASE Pop(s)
    <3>1. screen' = [screen EXCEPT ![s] = [screen[s] EXCEPT !.at = "popped",
                                                           !.loading = screen[s].loading]]
      BY <1>1, <2>3 DEF Pop, ScreenT
    <3> QED BY <2>0, <2>3, <3>1 DEF Pop
  <2>4. CASE Send(s) /\ screen[s].activity
    <3>1. screen[s].at = "top" /\ req' = req /\ main' = main
          /\ screen' = [screen EXCEPT ![s].loading = TRUE]
      BY <2>4 DEF Send
    <3>2. screen' = [screen EXCEPT ![s] = [screen[s] EXCEPT !.at = "top", !.loading = TRUE]]
      BY <1>1, <3>1 DEF ScreenT
    <3> QED BY <3>1, <3>2
  <2> QED BY <2>1, <2>2, <2>3, <2>4
<1>3. PICK at \in {"top", "covered", "popped"}, l \in BOOLEAN :
         screen' = [screen EXCEPT ![s] = [screen[s] EXCEPT !.at = at, !.loading = l]]
  BY <1>2
<1>4. PICK e \in ScreenT : e = [screen[s] EXCEPT !.at = at, !.loading = l]
  BY <1>1 DEF ScreenT
<1>5. e.at # "gone" /\ e.ref = screen[s].ref
  BY <1>1, <1>4 DEF ScreenT
<1>6. screen' = [screen EXCEPT ![s] = e]
  BY <1>3, <1>4
<1>7. screen' \in [Screens -> ScreenT] /\ SameScreens(screen, screen')
  BY <1>1, <1>2, <1>5, <1>6 DEF SameScreens
<1>8. Requests(req', screen')
  <2>1. ASSUME NEW r \in DOMAIN req PROVE Placed(req[r], r, screen'[req[r].by])
    BY <1>0, <1>1, <1>7, SamePlaced DEF Requests
  <2> QED BY <1>0, <1>2, <2>1 DEF Requests
<1>9. TypeOK'
  BY <1>1, <1>2, <1>7, TypeAgain
<1> QED BY <1>0, <1>2, <1>8, <1>9 DEF IInv, Stays, StaysBut

\* cancelHandle.
LEMMA CancelStep ==
    ASSUME IInv, NEW r \in DOMAIN req, Cancel(r) PROVE IInv' /\ TakesBack
<1>0. TypeOK /\ Requests(req, screen) /\ Queue(main, req)
  BY DEF IInv
<1>1. /\ screen \in [Screens -> ScreenT] /\ req \in Seq(ReqT) /\ main \in Seq(BlockT)
      /\ Len(req) <= MaxRequests /\ req[r] \in ReqT
  BY <1>0, ReqType
<1>2. Sound(req[r])
  BY <1>0 DEF Requests
<1>3. PICK d \in ReqT : d = GivenUp(req[r])
  BY <1>1, <1>2, GivenUpIs
<1>4. /\ Sound(d) /\ Follows(req[r], d) /\ ~Owes(d)
      /\ d.by = req[r].by /\ d.delegate = req[r].delegate
      /\ d.told = req[r].told /\ (d.wanted <=> req[r].told = 1)
  BY <1>1, <1>2, <1>3, GivenUpIs
<1>5. /\ req' = [req EXCEPT ![r] = d] /\ screen' = screen /\ main' = main
      /\ SameScreens(screen, screen')
  BY <1>3 DEF Cancel, SameScreens
<1>6. /\ req' \in Seq(ReqT) /\ Len(req') = Len(req) /\ DOMAIN req' = DOMAIN req
      /\ req'[r] = d /\ \A i \in DOMAIN req : i # r => req'[i] = req[i]
      /\ Requests(req', screen')
  BY <1>0, <1>4, <1>5, OneRequest
<1>7. Queue(main', req')
  <2>1. \A i \in DOMAIN req : Follows(req[i], req'[i])
    <3>1. \A i \in DOMAIN req : i # r => Follows(req[i], req'[i])
      BY <1>6 DEF Follows
    <3> QED BY <1>4, <1>6, <3>1
  <2> QED BY <1>0, <1>1, <1>5, <1>6, <2>1, SameQueue
<1>8. TypeOK'
  BY <1>1, <1>5, <1>6, TypeAgain
<1>9. TakesBack
  <2>1. Stat(d) = Stat(req[r]) \/ (Stat(req[r]) = "open" /\ Stat(d) = "taken back")
    BY <1>2, <1>4 DEF Stat, Sound
  <2> QED BY <1>6, <2>1 DEF TakesBack
<1> QED BY <1>6, <1>7, <1>8, <1>9 DEF IInv

\* The screen that goes gives up what it asked for, or its last comment loses its
\* delegate.
LEMMA DeallocStep ==
    ASSUME IInv, NEW s \in Screens, Dealloc(s) PROVE IInv' /\ TakesBack
<1>0. TypeOK /\ Requests(req, screen) /\ Queue(main, req)
  BY DEF IInv
<1>1. /\ screen \in [Screens -> ScreenT] /\ req \in Seq(ReqT) /\ main \in Seq(BlockT)
      /\ DOMAIN req = 1..Len(req) /\ Len(req) \in Nat /\ Len(req) <= MaxRequests
      /\ \A r \in DOMAIN req : req[r] \in ReqT /\ req[r].by \in Screens /\ Sound(req[r])
  BY <1>0, ReqType DEF Requests
<1>2. main' = main /\ req' = Dismantled(s)
      /\ screen' = [screen EXCEPT ![s] = [screen[s] EXCEPT !.at = "gone", !.loading = FALSE]]
  BY DEF Dealloc
<1>3. PICK e \in ScreenT : e = [screen[s] EXCEPT !.at = "gone", !.loading = FALSE]
  BY <1>1 DEF ScreenT
<1>4. e.ref = screen[s].ref
  BY <1>1, <1>3 DEF ScreenT
<1>5. /\ screen' \in [Screens -> ScreenT]
      /\ screen'[s].ref = screen[s].ref
      /\ \A t \in Screens : t # s => screen'[t] = screen[t]
  BY <1>1, <1>2, <1>3, <1>4
<1>6. DOMAIN req' = DOMAIN req
  BY <1>2 DEF Dismantled
<1>7. ASSUME NEW r \in DOMAIN req
      PROVE  /\ req'[r] \in ReqT /\ Sound(req'[r]) /\ Follows(req[r], req'[r])
             /\ Placed(req'[r], r, screen'[req'[r].by])
             /\ \/ Stat(req'[r]) = Stat(req[r])
                \/ Stat(req[r]) = "open" /\ Stat(req'[r]) = "taken back"
  <2>0. req[r] \in ReqT /\ req[r].by \in Screens /\ Sound(req[r])
        /\ Placed(req[r], r, screen[req[r].by])
    BY <1>0, <1>1 DEF Requests
  <2>1. CASE s \in Sources /\ req[r].by = s
    <3>1. PICK d \in ReqT : d = GivenUp(req[r])
      BY <2>0, GivenUpIs
    <3>2. /\ Sound(d) /\ Follows(req[r], d) /\ ~Owes(d) /\ d.by = s
          /\ d.told = req[r].told /\ (d.wanted <=> req[r].told = 1)
      BY <2>0, <2>1, <3>1, GivenUpIs
    <3>3. req'[r] = d
      BY <1>2, <2>1, <3>1 DEF Dismantled
    <3>4. Placed(d, r, screen'[s])
      BY <2>1, <3>2, APIAssumption DEF Placed
    <3>5. Stat(d) = Stat(req[r]) \/ (Stat(req[r]) = "open" /\ Stat(d) = "taken back")
      BY <2>0, <3>2 DEF Stat, Sound
    <3> QED BY <3>2, <3>3, <3>4, <3>5
  <2>2. CASE ~(s \in Sources /\ req[r].by = s) /\ r = screen[s].ref
    <3>1. PICK d \in ReqT : d = [req[r] EXCEPT !.delegate = FALSE]
      BY <2>0 DEF ReqT
    <3>2. req'[r] = d
      BY <1>2, <2>2, <3>1 DEF Dismantled
    <3>3. /\ d.by = req[r].by /\ ~d.delegate /\ d.op = req[r].op /\ d.told = req[r].told
          /\ d.cancelled = req[r].cancelled /\ d.listed = req[r].listed
          /\ d.held = req[r].held /\ d.wanted = req[r].wanted
      BY <2>0, <3>1 DEF ReqT
    <3>4. Owes(d) <=> Owes(req[r])
      BY <3>3 DEF Owes
    <3>5. Sound(d) /\ Stat(d) = Stat(req[r])
      BY <2>0, <3>3, <3>4 DEF Sound, Stat
    <3>6. Follows(req[r], d)
      BY <3>3 DEF Follows, Queued
    <3>7. Placed(d, r, screen'[d.by])
      <4>1. CASE req[r].by = s
        BY <1>5, <2>0, <2>2, <3>3, <4>1 DEF Placed
      <4>2. CASE req[r].by # s
        BY <1>5, <2>0, <3>3, <3>4, <4>2 DEF Placed
      <4> QED BY <4>1, <4>2
    <3> QED BY <3>2, <3>5, <3>6, <3>7
  <2>3. CASE ~(s \in Sources /\ req[r].by = s) /\ r # screen[s].ref
    <3>1. req'[r] = req[r]
      BY <1>2, <2>3 DEF Dismantled
    <3>2. Placed(req[r], r, screen'[req[r].by])
      <4>1. CASE req[r].by = s
        BY <1>5, <2>0, <2>3, <4>1 DEF Placed
      <4>2. CASE req[r].by # s
        BY <1>5, <2>0, <4>2 DEF Placed
      <4> QED BY <4>1, <4>2
    <3> QED BY <2>0, <3>1, <3>2 DEF Follows
  <2> QED BY <2>1, <2>2, <2>3
<1>8. /\ req' \in Seq(ReqT) /\ Len(req') = Len(req)
  <2>1. req' = [r \in 1..Len(req) |-> req'[r]]
    BY <1>1, <1>2 DEF Dismantled
  <2>2. \A r \in 1..Len(req) : req'[r] \in ReqT
    BY <1>1, <1>7
  <2>3. Len(req) \in Nat
    BY <1>1
  <2> QED BY <2>1, <2>2, <2>3
<1>9. Requests(req', screen')
  BY <1>6, <1>7 DEF Requests
<1>10. Queue(main', req')
  BY <1>0, <1>1, <1>2, <1>6, <1>7, SameQueue
<1>11. TypeOK'
  BY <1>1, <1>2, <1>5, <1>8, TypeAgain
<1>12. TakesBack
  BY <1>6, <1>7 DEF TakesBack
<1> QED BY <1>9, <1>10, <1>11, <1>12 DEF IInv

LEMMA OneStays ==
    ASSUME NEW r \in DOMAIN req, DOMAIN req' = DOMAIN req,
           \A i \in DOMAIN req : i # r => req'[i] = req[i]
    PROVE  /\ Stat(req'[r]) = Stat(req[r]) => Stays
           /\ Stat(req[r]) = "open" /\ Stat(req'[r]) = "told" => Tells(r)
           /\ \A i \in DOMAIN req : i # r => Follows(req[i], req'[i])
BY DEF Stays, StaysBut, Tells, Follows

\* The end of an operation is posted.
LEMMA EndStep ==
    ASSUME IInv, NEW r \in DOMAIN req, EndOp(r) PROVE IInv' /\ Stays
<1>0. TypeOK /\ Requests(req, screen) /\ Queue(main, req)
  BY DEF IInv
<1>1. /\ screen \in [Screens -> ScreenT] /\ req \in Seq(ReqT) /\ main \in Seq(BlockT)
      /\ Len(req) <= MaxRequests /\ req[r] \in ReqT /\ r \in 1..MaxRequests
  BY <1>0, ReqType
<1>2. Sound(req[r])
  BY <1>0 DEF Requests
<1>3. PICK kind \in {"loaded", "failed", "timeout"} : Ends(r, kind)
  BY DEF EndOp
<1>4. PICK d \in ReqT : d = [req[r] EXCEPT !.op = "ended"]
  BY <1>1 DEF ReqT
<1>5. /\ Sound(d) /\ (Owes(d) <=> Owes(req[r]))
      /\ d.by = req[r].by /\ d.delegate = req[r].delegate /\ d.told = req[r].told /\ d.op = "ended"
      /\ (d.wanted <=> req[r].wanted) /\ (d.held <=> req[r].held) /\ (d.listed <=> req[r].listed)
      /\ (d.cancelled <=> req[r].cancelled)
  BY <1>1, <1>2, <1>4, MovedIs
<1>6. /\ req[r].op = "open" /\ req' = [req EXCEPT ![r] = d] /\ screen' = screen
      /\ main' = Append(main, [kind |-> kind, req |-> r]) /\ SameScreens(screen, screen')
  BY <1>3, <1>4 DEF Ends, SameScreens
<1>7. /\ req' \in Seq(ReqT) /\ Len(req') = Len(req) /\ DOMAIN req' = DOMAIN req
      /\ req'[r] = d /\ \A i \in DOMAIN req : i # r => req'[i] = req[i]
      /\ Requests(req', screen')
  BY <1>0, <1>5, <1>6, OneRequest
<1>8. PICK b \in BlockT : b = [kind |-> kind, req |-> r]
  BY <1>1 DEF BlockT
<1>9. Queue(main, req')
  <2>1. Follows(req[r], req'[r])
    BY <1>6 DEF Follows, Queued
  <2>2. \A i \in DOMAIN req : Follows(req[i], req'[i])
    BY <1>7, <2>1, OneStays
  <2> QED BY <1>0, <1>1, <1>7, <2>2, SameQueue
<1>10. Queued(d, kind)
  BY <1>2, <1>5, <1>6 DEF Queued, Sound
<1>11. \A i \in DOMAIN main : main[i].req # r
  BY <1>0, <1>6 DEF Queue, Queued
<1>12. main' \in Seq(BlockT) /\ Queue(main', req')
  BY <1>1, <1>6, <1>7, <1>8, <1>9, <1>10, <1>11, AppendQueue
<1>13. TypeOK'
  BY <1>1, <1>6, <1>7, <1>12, TypeAgain
<1>14. Stays
  <2>1. Stat(d) = Stat(req[r])
    BY <1>5 DEF Stat
  <2> QED BY <1>7, <2>1, OneStays
<1> QED BY <1>7, <1>12, <1>13, <1>14 DEF IInv

\* What is known of the first block on the queue.
LEMMA HeadIs ==
    ASSUME IInv, NEW kind \in Kinds, Run(kind)
    PROVE  /\ main # <<>> /\ Head(main).req \in DOMAIN req /\ Queued(req[Head(main).req], kind)
           /\ req[Head(main).req] \in ReqT /\ Sound(req[Head(main).req])
           /\ Head(main).req \in 1..MaxRequests
<1>0. TypeOK /\ Requests(req, screen) /\ Queue(main, req)
  BY DEF IInv
<1>1. main \in Seq(BlockT) /\ main # <<>> /\ Head(main).kind = kind
  BY <1>0, ReqType DEF Run
<1>2. 1 \in DOMAIN main /\ Head(main) = main[1]
  BY <1>1
<1>3. Head(main).req \in DOMAIN req /\ Queued(req[Head(main).req], kind)
  BY <1>0, <1>1, <1>2 DEF Queue
<1> QED BY <1>0, <1>1, <1>3, ReqType DEF Requests

\* A block that leaves everything alone.
LEMMA DropStep ==
    ASSUME IInv, NEW kind \in Kinds, Run(kind), main' = Tail(main), UNCHANGED <<req, screen>>
    PROVE  IInv' /\ Stays
<1>0. TypeOK /\ Requests(req, screen) /\ Queue(main, req)
  BY DEF IInv
<1>1. /\ screen \in [Screens -> ScreenT] /\ req \in Seq(ReqT) /\ main \in Seq(BlockT)
      /\ Len(req) <= MaxRequests
  BY <1>0, ReqType
<1>2. main # <<>>
  BY DEF Run
<1>3. \A r \in DOMAIN req : Follows(req[r], req'[r])
  BY DEF Follows
<1>4. main' \in Seq(BlockT) /\ Queue(main', req')
  BY <1>0, <1>1, <1>2, <1>3, TailQueue
<1>5. TypeOK'
  BY <1>1, <1>4, TypeAgain
<1> QED BY <1>0, <1>4, <1>5 DEF IInv, Stays, StaysBut

\* A block that changes its own request.
LEMMA PopStep ==
    ASSUME IInv, NEW kind \in Kinds, Run(kind), main' = Tail(main),
           NEW d \in ReqT, req' = [req EXCEPT ![Head(main).req] = d], Sound(d),
           d.by = req[Head(main).req].by, d.delegate = req[Head(main).req].delegate,
           Owes(d) => Owes(req[Head(main).req]),
           screen' \in [Screens -> ScreenT], SameScreens(screen, screen')
    PROVE  /\ IInv'
           /\ Stat(d) = Stat(req[Head(main).req]) => Stays
           /\ Stat(req[Head(main).req]) = "open" /\ Stat(d) = "told" => Tells(Head(main).req)
<1>0. TypeOK /\ Requests(req, screen) /\ Queue(main, req)
  BY DEF IInv
<1>1. /\ req \in Seq(ReqT) /\ main \in Seq(BlockT) /\ Len(req) <= MaxRequests
  BY <1>0, ReqType
<1>2. PICK r \in DOMAIN req : r = Head(main).req
  BY HeadIs
<1>3. /\ req' \in Seq(ReqT) /\ Len(req') = Len(req) /\ DOMAIN req' = DOMAIN req
      /\ req'[r] = d /\ \A i \in DOMAIN req : i # r => req'[i] = req[i]
      /\ Requests(req', screen')
  BY <1>0, <1>2, OneRequest
<1>4. \A i \in DOMAIN req : i # r => Follows(req[i], req'[i])
  BY <1>3, OneStays
<1>5. main # <<>>
  BY DEF Run
<1>6. main' \in Seq(BlockT) /\ Queue(main', req')
  BY <1>0, <1>1, <1>2, <1>3, <1>4, <1>5, TailQueue
<1>7. TypeOK'
  BY <1>1, <1>3, <1>6, TypeAgain
<1>8. /\ Stat(d) = Stat(req[r]) => Stays
      /\ Stat(req[r]) = "open" /\ Stat(d) = "told" => Tells(r)
  BY <1>3, OneStays
<1> QED BY <1>2, <1>3, <1>6, <1>7, <1>8 DEF IInv

LEMMA TellingScreens ==
    ASSUME TypeOK, NEW r \in DOMAIN req, NEW good \in BOOLEAN, Telling(r, good)
    PROVE  screen' \in [Screens -> ScreenT] /\ SameScreens(screen, screen')
<1>1. screen \in [Screens -> ScreenT] /\ req[r].by \in Screens
  BY ReqType
<1>2. screen' = Told(screen, req[r].by, good) \/ screen' = screen
  BY DEF Telling
<1> QED BY <1>1, <1>2, ToldScreens DEF SameScreens

LEMMA SameScreensSelf == ASSUME screen' = screen PROVE SameScreens(screen, screen')
BY DEF SameScreens

\* didLoaded.
LEMMA LoadedStep == ASSUME IInv, LoadedBlock PROVE IInv' /\ Stays
<1>0. TypeOK /\ Requests(req, screen) /\ Queue(main, req) /\ Run("loaded") /\ "loaded" \in Kinds
  BY DEF IInv, LoadedBlock, Kinds
<1>1. /\ screen \in [Screens -> ScreenT] /\ req \in Seq(ReqT) /\ main \in Seq(BlockT)
      /\ Len(req) <= MaxRequests
  BY <1>0, ReqType
<1>2. PICK r \in DOMAIN req : r = Head(main).req
  BY <1>0, HeadIs
<1>3. main # <<>> /\ req[r] \in ReqT /\ Sound(req[r]) /\ Queued(req[r], "loaded") /\ r \in 1..MaxRequests
  BY <1>0, <1>2, HeadIs
<1>4. CASE req[r].cancelled
  BY <1>0, <1>2, <1>4, DropStep DEF LoadedBlock
<1>5. CASE ~req[r].cancelled
  <2>1. PICK d \in ReqT : d = Held(req[r])
    BY <1>3, <1>5, HeldIs DEF Queued
  <2>2. /\ Sound(d) /\ Queued(d, "response") /\ d.by = req[r].by
        /\ d.delegate = req[r].delegate /\ d.told = 0 /\ (d.wanted <=> req[r].wanted)
    BY <1>3, <1>5, <2>1, HeldIs DEF Queued
  <2>3. Owes(req[r]) /\ Stat(d) = Stat(req[r])
    BY <1>3, <1>5, <2>2 DEF Queued, Owes, Stat
  <2>4. /\ req' = [req EXCEPT ![r] = d] /\ screen' = screen /\ SameScreens(screen, screen')
        /\ main' = Append(Tail(main), [kind |-> "response", req |-> r])
    BY <1>2, <1>5, <2>1, SameScreensSelf DEF LoadedBlock
  <2>5. /\ req' \in Seq(ReqT) /\ Len(req') = Len(req) /\ DOMAIN req' = DOMAIN req
        /\ req'[r] = d /\ \A i \in DOMAIN req : i # r => req'[i] = req[i]
        /\ Requests(req', screen')
    BY <1>0, <2>2, <2>3, <2>4, OneRequest
  <2>6. \A i \in DOMAIN req : i # r => Follows(req[i], req'[i])
    BY <2>5, OneStays
  <2>7. /\ Tail(main) \in Seq(BlockT) /\ Queue(Tail(main), req')
        /\ \A i \in DOMAIN Tail(main) : Tail(main)[i].req # r
    BY <1>0, <1>1, <1>2, <1>3, <2>5, <2>6, TailQueue
  <2>8. PICK b \in BlockT : b = [kind |-> "response", req |-> r]
    BY <1>3 DEF BlockT
  <2>9. main' \in Seq(BlockT) /\ Queue(main', req')
    BY <2>2, <2>4, <2>5, <2>7, <2>8, AppendQueue
  <2>10. TypeOK'
    BY <1>1, <2>4, <2>5, <2>9, TypeAgain
  <2>11. Stays
    BY <2>3, <2>5, OneStays
  <2> QED BY <2>5, <2>9, <2>10, <2>11 DEF IInv
<1> QED BY <1>4, <1>5

\* What an owed answer makes of a request for its caller.
LEMMA OwedIsOpen ==
    ASSUME NEW q \in ReqT, Sound(q), q.told = 0, Owes(q),
           NEW d \in ReqT, d.told = 1
    PROVE  Stat(q) = "open" /\ Stat(d) = "told"
BY DEF Stat, Sound

\* mainDoFailError, by a block or by a timer.
LEMMA FailedStep ==
    ASSUME IInv, FailedBlock PROVE IInv' /\ (Stays \/ \E r \in DOMAIN req : Tells(r))
<1>0. TypeOK /\ Run("failed") /\ "failed" \in Kinds
  BY DEF IInv, FailedBlock, Kinds
<1>1. PICK r \in DOMAIN req : r = Head(main).req
  BY <1>0, HeadIs
<1>2. req[r] \in ReqT /\ Sound(req[r]) /\ Queued(req[r], "failed")
  BY <1>0, <1>1, HeadIs
<1>3. CASE req[r].cancelled
  BY <1>0, <1>1, <1>3, DropStep DEF FailedBlock, Fail
<1>4. CASE ~req[r].cancelled
  <2>1. req[r].told = 0 /\ ~req[r].held /\ req[r].listed /\ req[r].op = "ended"
    BY <1>2, <1>4 DEF Queued
  <2>2. PICK d \in ReqT : d = Failed(req[r])
    BY <1>2, <1>4, <2>1, FailedIs
  <2>3. /\ Sound(d) /\ ~Owes(d) /\ d.by = req[r].by /\ d.delegate = req[r].delegate /\ d.told = 1
    BY <1>2, <1>4, <2>1, <2>2, FailedIs
  <2>4. req' = [req EXCEPT ![r] = d] /\ Telling(r, FALSE) /\ main' = Tail(main)
    BY <1>1, <1>4, <2>2 DEF FailedBlock, Fail
  <2>5. screen' \in [Screens -> ScreenT] /\ SameScreens(screen, screen')
    BY <1>0, <2>4, TellingScreens
  <2>6. Owes(req[r])
    BY <1>4, <2>1 DEF Owes
  <2>7. Stat(req[r]) = "open" /\ Stat(d) = "told"
    BY <1>2, <2>1, <2>3, <2>6, OwedIsOpen
  <2> QED BY <1>0, <1>1, <2>3, <2>4, <2>5, <2>7, PopStep
<1> QED BY <1>3, <1>4

LEMMA LateStep ==
    ASSUME IInv, NEW r \in DOMAIN req, LateFails(r) PROVE IInv' /\ (Stays \/ Tells(r))
<1>0. TypeOK /\ Requests(req, screen) /\ Queue(main, req)
  BY DEF IInv
<1>1. /\ screen \in [Screens -> ScreenT] /\ req \in Seq(ReqT) /\ main \in Seq(BlockT)
      /\ Len(req) <= MaxRequests /\ req[r] \in ReqT
  BY <1>0, ReqType
<1>2. Sound(req[r]) /\ req[r].op = "late" /\ main' = main
  BY <1>0 DEF Requests, LateFails
<1>3. PICK e \in ReqT : e = [req[r] EXCEPT !.op = "ended"]
  BY <1>1 DEF ReqT
<1>4. /\ Sound(e) /\ (Owes(e) <=> Owes(req[r]))
      /\ e.by = req[r].by /\ e.delegate = req[r].delegate /\ e.told = req[r].told /\ e.op = "ended"
      /\ (e.wanted <=> req[r].wanted) /\ (e.held <=> req[r].held) /\ (e.listed <=> req[r].listed)
      /\ (e.cancelled <=> req[r].cancelled)
  BY <1>1, <1>2, <1>3, MovedIs
<1>5. \E d \in ReqT :
         /\ req' = [req EXCEPT ![r] = d] /\ Sound(d) /\ d.by = req[r].by
         /\ d.delegate = req[r].delegate /\ (Owes(d) => Owes(req[r]))
         /\ screen' \in [Screens -> ScreenT] /\ SameScreens(screen, screen')
         /\ Stat(d) = Stat(req[r]) \/ (Stat(req[r]) = "open" /\ Stat(d) = "told")
  <2>1. CASE req[r].cancelled
    <3>1. req' = [req EXCEPT ![r] = e] /\ screen' = screen /\ SameScreens(screen, screen')
      BY <1>3, <2>1, SameScreensSelf DEF LateFails
    <3>2. Stat(e) = Stat(req[r])
      BY <1>4 DEF Stat
    <3> QED BY <1>1, <1>4, <3>1, <3>2
  <2>2. CASE ~req[r].cancelled
    <3>1. e.told = 0 /\ ~e.held /\ e.listed /\ ~e.cancelled
      BY <1>2, <1>4, <2>2 DEF Sound
    <3>2. PICK d \in ReqT : d = Failed(e)
      BY <1>4, <3>1, FailedIs
    <3>3. /\ Sound(d) /\ ~Owes(d) /\ d.by = e.by /\ d.delegate = e.delegate /\ d.told = 1
      BY <1>4, <3>1, <3>2, FailedIs
    <3>4. req' = [req EXCEPT ![r] = d] /\ Telling(r, FALSE)
      BY <1>3, <2>2, <3>2 DEF LateFails
    <3>5. screen' \in [Screens -> ScreenT] /\ SameScreens(screen, screen')
      BY <1>0, <3>4, TellingScreens
    <3>6. Owes(req[r])
      BY <1>4, <3>1 DEF Owes
    <3>7. Stat(req[r]) = "open" /\ Stat(d) = "told"
      BY <1>1, <1>2, <1>4, <3>1, <3>3, <3>6, OwedIsOpen
    <3> QED BY <1>4, <3>3, <3>4, <3>5, <3>7
  <2> QED BY <2>1, <2>2
<1>6. PICK d \in ReqT :
         /\ req' = [req EXCEPT ![r] = d] /\ Sound(d) /\ d.by = req[r].by
         /\ d.delegate = req[r].delegate /\ (Owes(d) => Owes(req[r]))
         /\ screen' \in [Screens -> ScreenT] /\ SameScreens(screen, screen')
         /\ Stat(d) = Stat(req[r]) \/ (Stat(req[r]) = "open" /\ Stat(d) = "told")
  BY <1>5
<1>7. /\ req' \in Seq(ReqT) /\ Len(req') = Len(req) /\ DOMAIN req' = DOMAIN req
      /\ req'[r] = d /\ \A i \in DOMAIN req : i # r => req'[i] = req[i]
      /\ Requests(req', screen')
  BY <1>0, <1>6, OneRequest
<1>8. Queue(main', req')
  <2>1. Follows(req[r], req'[r])
    BY <1>2 DEF Follows, Queued
  <2>2. \A i \in DOMAIN req : Follows(req[i], req'[i])
    BY <1>7, <2>1, OneStays
  <2> QED BY <1>0, <1>1, <1>2, <1>7, <2>2, SameQueue
<1>9. TypeOK'
  BY <1>1, <1>2, <1>6, <1>7, TypeAgain
<1>10. Stays \/ Tells(r)
  BY <1>6, <1>7, OneStays
<1> QED BY <1>7, <1>8, <1>9, <1>10 DEF IInv

LEMMA TimeoutStep == ASSUME IInv, TimeoutBlock PROVE IInv' /\ Stays
<1>0. TypeOK /\ Run("timeout") /\ "timeout" \in Kinds
  BY DEF IInv, TimeoutBlock, Kinds
<1>1. PICK r \in DOMAIN req : r = Head(main).req
  BY <1>0, HeadIs
<1>2. req[r] \in ReqT /\ Sound(req[r]) /\ Queued(req[r], "timeout")
  BY <1>0, <1>1, HeadIs
<1>3. PICK d \in ReqT : d = [req[r] EXCEPT !.op = "late"]
  BY <1>2 DEF ReqT
<1>4. /\ Sound(d) /\ (Owes(d) <=> Owes(req[r]))
      /\ d.by = req[r].by /\ d.delegate = req[r].delegate /\ d.told = req[r].told
      /\ (d.wanted <=> req[r].wanted)
  BY <1>2, <1>3, MovedIs DEF Queued
<1>5. /\ req' = [req EXCEPT ![r] = d] /\ main' = Tail(main) /\ screen' = screen
      /\ SameScreens(screen, screen')
  BY <1>1, <1>3, SameScreensSelf DEF TimeoutBlock
<1>6. screen' \in [Screens -> ScreenT]
  BY <1>0, <1>5, ReqType
<1>7. Stat(d) = Stat(req[r])
  BY <1>4 DEF Stat
<1> QED BY <1>0, <1>1, <1>4, <1>5, <1>6, <1>7, PopStep

\* The block of vtHttpTaskDidLoaded.
LEMMA ResponseStep ==
    ASSUME IInv, ResponseBlock PROVE IInv' /\ (Stays \/ \E r \in DOMAIN req : Tells(r))
<1>0. TypeOK /\ Run("response") /\ "response" \in Kinds
  BY DEF IInv, ResponseBlock, Kinds
<1>1. PICK r \in DOMAIN req : r = Head(main).req
  BY <1>0, HeadIs
<1>2. req[r] \in ReqT /\ Sound(req[r]) /\ Queued(req[r], "response")
  BY <1>0, <1>1, HeadIs
<1>3. CASE ~req[r].held
  BY <1>0, <1>1, <1>3, DropStep DEF ResponseBlock, Answers
<1>4. CASE req[r].held
  <2>1. req[r].told = 0 /\ ~req[r].listed /\ req[r].op = "ended"
    BY <1>2 DEF Queued
  <2>2. PICK d : d = [req[r] EXCEPT !.held = FALSE, !.told = @ + 1]
    OBVIOUS
  <2>3. /\ d \in ReqT /\ Sound(d) /\ ~Owes(d)
        /\ d.by = req[r].by /\ d.delegate = req[r].delegate /\ d.told = 1
    BY <1>2, <1>4, <2>1, <2>2, GivenIs
  <2>4. req' = [req EXCEPT ![r] = d] /\ main' = Tail(main)
    <3>1. req' = [req EXCEPT ![r].held = FALSE, ![r].told = @ + 1]
      BY <1>1, <1>4 DEF ResponseBlock, Answers
    <3>2. req \in Seq(ReqT)
      BY <1>0, ReqType
    <3> QED BY <1>2, <2>2, <3>1, <3>2 DEF ResponseBlock, ReqT
  <2>5. \E good \in BOOLEAN : Telling(r, good)
    BY <1>1, <1>4 DEF ResponseBlock, Answers
  <2>6. screen' \in [Screens -> ScreenT] /\ SameScreens(screen, screen')
    BY <1>0, <2>5, TellingScreens
  <2>7. Owes(req[r])
    BY <1>4 DEF Owes
  <2>8. Stat(req[r]) = "open" /\ Stat(d) = "told"
    BY <1>2, <2>1, <2>3, <2>7, OwedIsOpen
  <2> QED BY <1>0, <1>1, <2>3, <2>4, <2>6, <2>8, PopStep
<1> QED BY <1>3, <1>4

-----------------------------------------------------------------------------
(* The theorems.                                                           *)

LEMMA InitInv == Init => IInv
<1> SUFFICES ASSUME Init PROVE IInv
  OBVIOUS
<1>1. req = <<>> /\ main = <<>> /\ DOMAIN req = {} /\ DOMAIN main = {}
  BY DEF Init
<1>2. screen \in [Screens -> ScreenT]
  <2>1. PICK activities \in SUBSET Comments :
           screen = [s \in Screens |-> [at |-> "top", loading |-> FALSE, ref |-> 0,
                                         activity |-> s \in activities]]
    BY DEF Init
  <2>2. ASSUME NEW s \in Screens, NEW b \in BOOLEAN
        PROVE  [at |-> "top", loading |-> FALSE, ref |-> 0, activity |-> b] \in ScreenT
    BY APIAssumption DEF ScreenT
  <2>3. \A s \in Screens : (s \in activities) \in BOOLEAN
    OBVIOUS
  <2> QED BY <2>1, <2>2, <2>3
<1>3. TypeOK
  BY <1>1, <1>2, APIAssumption DEF TypeOK
<1>4. Requests(req, screen) /\ Queue(main, req)
  BY <1>1 DEF Requests, Queue
<1> QED BY <1>3, <1>4 DEF IInv

LEMMA StutterStep == ASSUME IInv, UNCHANGED vars PROVE IInv' /\ Stays
<1>1. TypeOK'
  BY DEF IInv, TypeOK, vars
<1>2. Requests(req', screen') /\ Queue(main', req')
  BY DEF IInv, vars
<1>3. Stays
  BY DEF Stays, StaysBut, vars
<1> QED BY <1>1, <1>2, <1>3 DEF IInv

LEMMA StepInv == IInv /\ [Next]_vars => IInv' /\ Shows
<1> SUFFICES ASSUME IInv, [Next]_vars PROVE IInv' /\ Shows
  OBVIOUS
<1>1. ASSUME NEW s \in Screens, Gesture(s) PROVE IInv' /\ Shows
  <2>1. CASE (Send(s) /\ ~screen[s].activity) \/ Query(s)
    BY <2>1, AskStep DEF Shows
  <2>2. CASE Cover(s) \/ Uncover(s) \/ Pop(s) \/ (Send(s) /\ screen[s].activity)
    BY <2>2, ScreenStep DEF Shows
  <2>3. CASE Dealloc(s)
    BY <2>3, DeallocStep DEF Shows
  <2> QED BY <1>1, <2>1, <2>2, <2>3 DEF Gesture
<1>2. ASSUME NEW r \in DOMAIN req, Cancel(r) PROVE IInv' /\ Shows
  BY <1>2, CancelStep DEF Shows
<1>3. ASSUME NEW r \in DOMAIN req, EndOp(r) PROVE IInv' /\ Shows
  BY <1>3, EndStep DEF Shows
<1>4. ASSUME NEW r \in DOMAIN req, LateFails(r) PROVE IInv' /\ Shows
  BY <1>4, LateStep DEF Shows
<1>5. CASE LoadedBlock
  BY <1>5, LoadedStep DEF Shows
<1>6. CASE FailedBlock
  BY <1>6, FailedStep DEF Shows
<1>7. CASE TimeoutBlock
  BY <1>7, TimeoutStep DEF Shows
<1>8. CASE ResponseBlock
  BY <1>8, ResponseStep DEF Shows
<1>9. CASE UNCHANGED vars
  BY <1>9, StutterStep DEF Shows
<1> QED BY <1>1, <1>2, <1>3, <1>4, <1>5, <1>6, <1>7, <1>8, <1>9 DEF Next, RunMain

\* In every reachable state what is owed is wanted and was not told, a request has one
\* block on the queue at most, and none of a screen that is gone is owed an answer.
THEOREM Inv == Spec => []IInv
BY InitInv, StepInv, PTL DEF Spec

\* No answer goes to a screen that is gone, unless it forgot the request for another.
THEOREM AlwaysDelegateAlive == Spec => []DelegateAlive
<1>1. IInv => DelegateAlive
  <2> SUFFICES ASSUME IInv, NEW r \in DOMAIN req, Owed(r), req[r].delegate,
                      screen[req[r].by].at = "gone"
               PROVE  req[r].by \in Comments /\ screen[req[r].by].ref > r
    BY DEF DelegateAlive
  <2>1. /\ req[r].by \in Screens /\ r \in 1..MaxRequests
        /\ screen \in [Screens -> ScreenT]
    BY ReqType DEF IInv
  <2>2. Placed(req[r], r, screen[req[r].by]) /\ Owes(req[r])
    BY DEF IInv, Requests, Owed, Owes
  <2>3. req[r].by \in Comments /\ r <= screen[req[r].by].ref /\ r # screen[req[r].by].ref
    BY <2>1, <2>2 DEF Placed, Screens
  <2>4. screen[req[r].by].ref \in 0..MaxRequests
    BY <2>1 DEF ScreenT
  <2>5. \A i, j \in Nat : i <= j /\ i # j => j > i
    OBVIOUS
  <2>6. r \in Nat /\ screen[req[r].by].ref \in Nat
    BY <2>1, <2>4, APIAssumption
  <2> QED BY <2>3, <2>5, <2>6
<1> QED BY <1>1, Inv, PTL

\* The outcome of a request by its record.
LEMMA OutcomeIs ==
    IInv => Outcome = [r \in 1..MaxRequests |->
                          IF r \in DOMAIN req THEN Stat(req[r]) ELSE "unasked"]
<1> SUFFICES ASSUME IInv, NEW r \in 1..MaxRequests
             PROVE  Outcome[r] = IF r \in DOMAIN req THEN Stat(req[r]) ELSE "unasked"
  BY DEF Outcome
<1>1. CASE r \notin DOMAIN req
  BY <1>1 DEF Outcome
<1>2. CASE r \in DOMAIN req
  <2>1. req[r].told = 1 \/ (req[r].told = 0 /\ req[r].told # 1)
    BY <1>2 DEF IInv, Requests, Sound
  <2>2. CASE req[r].told = 1
    BY <1>2, <2>2 DEF Outcome, Stat
  <2>3. CASE req[r].told = 0 /\ req[r].told # 1
    BY <1>2, <2>3 DEF Outcome, Stat
  <2> QED BY <2>1, <2>2, <2>3
<1> QED BY <1>1, <1>2

LEMMA OutcomeNext ==
    (IInv => Outcome = [r \in 1..MaxRequests |->
                           IF r \in DOMAIN req THEN Stat(req[r]) ELSE "unasked"])'
BY OutcomeIs, PTL

LEMMA InitAsks == Init => AO!Init
<1> SUFFICES ASSUME Init PROVE Outcome = [r \in 1..MaxRequests |-> "unasked"]
  BY DEF AO!Init
<1>1. DOMAIN req = {}
  BY DEF Init
<1> QED BY <1>1 DEF Outcome

\* A step that shows is one of AnswerOnce, or leaves every outcome alone.
LEMMA ShowsIs ==
    ASSUME IInv, IInv', Shows PROVE [AO!Next]_Outcome
<1> DEFINE Of(r) == IF r \in DOMAIN req THEN Stat(req[r]) ELSE "unasked"
           After(r) == IF r \in DOMAIN req' THEN Stat(req'[r]) ELSE "unasked"
<1>1. Outcome = [r \in 1..MaxRequests |-> Of(r)]
  BY OutcomeIs
<1>2. Outcome' = [r \in 1..MaxRequests |-> After(r)]
  BY OutcomeNext
<1>3. \A r \in DOMAIN req : r \in 1..MaxRequests
  BY ReqType DEF IInv
<1>4. \A r \in DOMAIN req : Of(r) = Stat(req[r])
  OBVIOUS
<1>5. CASE Stays
  <2>1. \A r \in 1..MaxRequests : After(r) = Of(r)
    BY <1>5 DEF Stays, StaysBut
  <2> QED BY <1>1, <1>2, <2>1
<1>6. CASE TakesBack
  <2> DEFINE rs == {r \in DOMAIN req : Of(r) = "open" /\ After(r) = "taken back"}
  <2>1. \A r \in 1..MaxRequests : After(r) = IF r \in rs THEN "taken back" ELSE Of(r)
    BY <1>6 DEF TakesBack
  <2>2. rs \in SUBSET (1..MaxRequests) /\ \A r \in rs : Outcome[r] = "open"
    BY <1>1, <1>3
  <2>3. Outcome' = [r \in 1..MaxRequests |-> IF r \in rs THEN "taken back" ELSE Outcome[r]]
    BY <1>1, <1>2, <2>1
  <2> HIDE DEF rs
  <2>4. CASE rs = {}
    BY <1>1, <2>3, <2>4
  <2>5. CASE rs # {}
    <3>1. AO!TakeBack(rs)
      BY <2>2, <2>3, <2>5 DEF AO!TakeBack
    <3> QED BY <2>2, <3>1 DEF AO!Next
  <2> QED BY <2>4, <2>5
<1>7. CASE Asks
  <2> DEFINE n == Len(req) + 1
  <2>1. n \in 1..MaxRequests /\ Of(n) = "unasked" /\ After(n) = "open"
    BY <1>7 DEF Asks
  <2>2. \A r \in 1..MaxRequests : r # n => After(r) = Of(r)
    BY <1>7 DEF Asks
  <2> HIDE DEF n, Of, After
  <2>3. Outcome[n] = "unasked" /\ Outcome' = [Outcome EXCEPT ![n] = "open"]
    BY <1>1, <1>2, <2>1, <2>2
  <2>4. AO!Ask(n)
    BY <2>3 DEF AO!Ask
  <2> QED BY <2>1, <2>4 DEF AO!Next
<1>8. ASSUME NEW n \in DOMAIN req, Tells(n) PROVE AO!Next
  <2>1. n \in 1..MaxRequests /\ Of(n) = "open" /\ After(n) = "told"
    BY <1>3, <1>8 DEF Tells, StaysBut
  <2>2. \A r \in 1..MaxRequests : r # n => After(r) = Of(r)
    BY <1>8 DEF Tells, StaysBut
  <2> HIDE DEF Of, After
  <2>3. Outcome[n] = "open" /\ Outcome' = [Outcome EXCEPT ![n] = "told"]
    BY <1>1, <1>2, <2>1, <2>2
  <2>4. AO!Tell(n)
    BY <2>3 DEF AO!Tell
  <2> QED BY <2>1, <2>4 DEF AO!Next
<1> QED BY <1>5, <1>6, <1>7, <1>8 DEF Shows

\* What callers see of their requests are behaviours of AnswerOnce: nothing is told
\* twice, nor after it was taken back, nor taken back after it was told.
THEOREM ImplementsAnswerOnce == Spec => AO!Spec
<1>1. Init => AO!Init
  BY InitAsks
<1>2. IInv /\ [Next]_vars => [AO!Next]_Outcome
  BY StepInv, ShowsIs
<1> QED BY <1>1, <1>2, Inv, PTL DEF Spec, AO!Spec
=============================================================================
