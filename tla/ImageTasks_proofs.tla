--------------------------- MODULE ImageTasks_proofs ---------------------------
(***************************************************************************)
(* Proofs that a view waits exactly while its picture is downloaded, and   *)
(* shows no picture of another address, for any views, any addresses and   *)
(* any number of operations.                                               *)
(***************************************************************************)
EXTENDS ImageTasks, SequenceTheorems, TLAPS

-----------------------------------------------------------------------------
(* The invariant, in terms of the fields of the state: vw the views, wt    *)
(* and tk the lists, q the operations, mn the main queue, mv the moved.    *)

World ==
    [view : [Views -> ViewT], waiting : [Srcs -> SUBSET Views], task : [Srcs -> Nat],
     op : Seq(OpT), cached : SUBSET Srcs, main : Seq(BlockT)]

Reading == {"image", "local"}
Ending == {"loaded", "failed", "timeout"}

\* Somebody has to be told about operation o.
Live(q, mn, o) ==
    ~q[o].cancelled /\ (q[o].stage # "ended" \/ \E i \in DOMAIN mn : mn[i].op = o)

\* A view that was not moved shows, waits for and reads its own address only.
Owns(vw, wt, mn, mv) ==
    \A v \in Views \ mv :
        /\ vw[v].pic \in {Nothing, vw[v].src}
        /\ \A s \in Srcs : v \in wt[s] => s = vw[v].src /\ (vw[v].loading \/ vw[v].loaded)
        /\ \A i \in DOMAIN mn :
              mn[i].kind \in Reading /\ mn[i].view = v => mn[i].src = vw[v].src

\* A block that ends an operation is the only one of it.
Posted(q, mn) ==
    /\ \A i \in DOMAIN mn :
          /\ mn[i].kind \notin Ending => mn[i].op = 0 /\ mn[i].view \in Views
          /\ mn[i].kind \in Ending => /\ mn[i].op \in DOMAIN q
                                      /\ q[mn[i].op].stage = "ended"
                                      /\ q[mn[i].op].src = mn[i].src
    /\ \A i, j \in DOMAIN mn : mn[i].op = mn[j].op /\ mn[i].op # 0 => i = j

Unfetched(q, mn, s) == \A o \in DOMAIN q : q[o].src = s => ~Live(q, mn, o)

\* The views that wait for s have one download, the one of _httpTasks.
Fetched(wt, tk, q, mn, s) ==
    /\ \A o \in DOMAIN q : q[o].src = s /\ Live(q, mn, o) => wt[s] # {} /\ tk[s] = o
    /\ wt[s] # {} => /\ tk[s] \in DOMAIN q
                     /\ q[tk[s]].src = s
                     /\ Live(q, mn, tk[s])

Good(w, mv) ==
    /\ w \in World
    /\ Owns(w.view, w.waiting, w.main, mv)
    /\ Posted(w.op, w.main)
    /\ \A s \in Srcs : Fetched(w.waiting, w.task, w.op, w.main, s)

IInv == TypeOK /\ Good(Now, moved)

-----------------------------------------------------------------------------
(* The calls, one after the other.                                         *)

\* The end of a download that is over keeps the rest.
LEMMA ToldGood ==
    ASSUME NEW w \in World, NEW mv, NEW s \in Srcs, NEW pic \in {Nothing, s},
           Owns(w.view, w.waiting, w.main, mv), Posted(w.op, w.main),
           \A r \in Srcs \ {s} : Fetched(w.waiting, w.task, w.op, w.main, r),
           Unfetched(w.op, w.main, s)
    PROVE  Good(Told(w, s, pic), mv)
<1> DEFINE u == Told(w, s, pic)
           vw == [v \in Views |-> IF v \in w.waiting[s] THEN Shows(w.view[v], pic) ELSE w.view[v]]
           wt == [w.waiting EXCEPT ![s] = {}]
           tk == [w.task EXCEPT ![s] = IF w.waiting[s] = {} THEN w.task[s] ELSE 0]
<1>1. /\ w.view \in [Views -> ViewT] /\ w.waiting \in [Srcs -> SUBSET Views]
      /\ w.task \in [Srcs -> Nat] /\ w.op \in Seq(OpT) /\ w.cached \in SUBSET Srcs
      /\ w.main \in Seq(BlockT)
  BY DEF World
<1>2. \A r \in ViewT : /\ Shows(r, pic) \in ViewT /\ Shows(r, pic).src = r.src
                       /\ Shows(r, pic).pic = pic /\ Shows(r, pic).loaded
  BY DEF Shows, ViewT
<1>3. vw \in [Views -> ViewT] /\ wt \in [Srcs -> SUBSET Views] /\ tk \in [Srcs -> Nat]
  BY <1>1, <1>2
<1>4. /\ u.view = vw /\ u.waiting = wt /\ u.task = tk /\ u.op = w.op
      /\ u.cached = w.cached /\ u.main = w.main
  BY <1>1 DEF Told, World
<1>5. u \in World
  BY <1>1, <1>3, <1>4 DEF Told, World
<1>6. Owns(vw, wt, w.main, mv)
  <2> SUFFICES ASSUME NEW v \in Views \ mv
               PROVE  /\ vw[v].pic \in {Nothing, vw[v].src}
                      /\ \A r \in Srcs : v \in wt[r] =>
                            r = vw[v].src /\ (vw[v].loading \/ vw[v].loaded)
                      /\ vw[v].src = w.view[v].src
    BY DEF Owns
  <2>1. \A r \in Srcs : v \in wt[r] => v \in w.waiting[r]
    BY <1>1
  <2>2. CASE v \in w.waiting[s]
    BY <1>1, <1>2, <2>1, <2>2 DEF Owns
  <2>3. CASE v \notin w.waiting[s]
    BY <1>1, <2>1, <2>3 DEF Owns
  <2> QED BY <2>2, <2>3
<1>7. ASSUME NEW r \in Srcs
      PROVE  Fetched(wt, tk, w.op, w.main, r)
  <2>1. CASE r = s
    BY <1>1, <2>1 DEF Fetched, Unfetched
  <2>2. CASE r # s
    BY <1>1, <2>2 DEF Fetched
  <2> QED BY <2>1, <2>2
<1> HIDE DEF u, vw, wt, tk
<1>8. Good(u, mv)
  BY <1>4, <1>5, <1>6, <1>7 DEF Good
<1> QED BY <1>8 DEF u

LEMMA WorldFields ==
    ASSUME NEW w \in World
    PROVE  /\ w.view \in [Views -> ViewT] /\ w.waiting \in [Srcs -> SUBSET Views]
           /\ w.task \in [Srcs -> Nat] /\ w.op \in Seq(OpT) /\ w.cached \in SUBSET Srcs
           /\ w.main \in Seq(BlockT)
BY DEF World

LEMMA DidLoadedGood ==
    ASSUME NEW w \in World, NEW mv, NEW s \in Srcs,
           Owns(w.view, w.waiting, w.main, mv), Posted(w.op, w.main),
           \A r \in Srcs \ {s} : Fetched(w.waiting, w.task, w.op, w.main, r),
           Unfetched(w.op, w.main, s)
    PROVE  Good(DidLoaded(w, s), mv)
<1> DEFINE c == [w EXCEPT !.cached = @ \cup {s}]
<1>1. /\ c \in World /\ c.view = w.view /\ c.waiting = w.waiting /\ c.task = w.task
      /\ c.op = w.op /\ c.main = w.main
  BY DEF World
<1> HIDE DEF c
<1>2. Good(Told(c, s, s), mv)
  BY <1>1, ToldGood
<1>3. Good(Told(w, s, Nothing), mv)
  BY ToldGood
<1> QED BY <1>2, <1>3 DEF DidLoaded, c

\* A view that asks for its own address may wait for it.
LEMMA EnrolledGood ==
    ASSUME NEW w, NEW mv, Good(w, mv), NEW v \in Views, NEW s \in Srcs,
           v \notin mv => w.view[v].src = s
    PROVE  Good(Enrolled(w, v, s), mv)
<1> DEFINE j == [w EXCEPT !.waiting[s] = @ \cup {v}, !.view[v].loading = TRUE]
           vw == [w.view EXCEPT ![v] = [w.view[v] EXCEPT !.loading = TRUE]]
           wt == [w.waiting EXCEPT ![s] = w.waiting[s] \cup {v}]
<1>1. /\ w \in World /\ w.view \in [Views -> ViewT] /\ w.waiting \in [Srcs -> SUBSET Views]
      /\ w.task \in [Srcs -> Nat] /\ w.op \in Seq(OpT) /\ w.cached \in SUBSET Srcs
      /\ w.main \in Seq(BlockT)
  BY WorldFields DEF Good
<1>2. \A r \in ViewT : LET l == [r EXCEPT !.loading = TRUE]
                       IN  l \in ViewT /\ l.src = r.src /\ l.pic = r.pic /\ l.loading
                           /\ l.loaded = r.loaded
  BY DEF ViewT
<1>3. vw \in [Views -> ViewT] /\ wt \in [Srcs -> SUBSET Views]
  BY <1>1, <1>2
<1>4. /\ j.view = vw /\ j.waiting = wt /\ j.task = w.task /\ j.op = w.op
      /\ j.cached = w.cached /\ j.main = w.main
  BY <1>1 DEF World
<1>5. j \in World
  BY <1>1, <1>3, <1>4 DEF World
<1>6. Owns(vw, wt, w.main, mv)
  <2> SUFFICES ASSUME NEW x \in Views \ mv
               PROVE  /\ vw[x].pic \in {Nothing, vw[x].src}
                      /\ \A r \in Srcs : x \in wt[r] =>
                            r = vw[x].src /\ (vw[x].loading \/ vw[x].loaded)
                      /\ vw[x].src = w.view[x].src
    BY <1>1 DEF Owns, Good
  <2>1. CASE x = v
    BY <1>1, <1>2, <2>1 DEF Owns, Good
  <2>2. CASE x # v
    BY <1>1, <1>2, <2>2 DEF Owns, Good
  <2> QED BY <2>1, <2>2
<1>7. \A r \in Srcs \ {s} : Fetched(wt, w.task, w.op, w.main, r)
  BY <1>1 DEF Fetched, Good
<1> HIDE DEF j
<1>8. CASE w.waiting[s] # {}
  <2>1. Fetched(wt, w.task, w.op, w.main, s)
    BY <1>1, <1>8 DEF Fetched, Good
  <2>2. Good(j, mv)
    BY <1>4, <1>5, <1>6, <1>7, <2>1 DEF Good
  <2> QED BY <1>8, <2>2 DEF Enrolled, j
<1>9. CASE w.waiting[s] = {} /\ file[s] # "none"
  <2>1. Unfetched(w.op, w.main, s)
    BY <1>9 DEF Fetched, Good, Unfetched
  <2>2. Good(DidLoaded(j, s), mv)
    BY <1>4, <1>5, <1>6, <1>7, <2>1, DidLoadedGood DEF Good
  <2> QED BY <1>9, <2>2 DEF Enrolled, j
<1>10. CASE w.waiting[s] = {} /\ file[s] = "none"
  <2> DEFINE o == Len(w.op) + 1
             new == [src |-> s, stage |-> "open", cancelled |-> FALSE]
             q == Append(w.op, new)
             tk == [w.task EXCEPT ![s] = o]
             u == [j EXCEPT !.task[s] = o, !.op = q]
  <2>1. new \in OpT /\ new.src = s /\ new.stage = "open" /\ ~new.cancelled
    BY DEF OpT, Stages
  <2> HIDE DEF new
  <2>2. /\ o \in Nat /\ q \in Seq(OpT) /\ DOMAIN q = DOMAIN w.op \cup {o} /\ q[o] = new
        /\ \A x \in DOMAIN w.op : q[x] = w.op[x] /\ x # o
    BY <1>1, <2>1
  <2>3. /\ u.view = vw /\ u.waiting = wt /\ u.task = tk /\ u.op = q
        /\ u.cached = w.cached /\ u.main = w.main
    BY <1>4, <1>5 DEF World
  <2>4. tk \in [Srcs -> Nat]
    BY <1>1, <2>2
  <2>5. u \in World
    BY <1>1, <1>3, <1>5, <2>2, <2>3, <2>4 DEF World
  <2> HIDE DEF q, u, vw
  <2>6. Posted(q, w.main)
    BY <2>2 DEF Posted, Good
  <2>7. \A x \in DOMAIN w.op : Live(q, w.main, x) <=> Live(w.op, w.main, x)
    BY <2>2 DEF Live
  <2>8. ASSUME NEW r \in Srcs, r # s
        PROVE  Fetched(wt, tk, q, w.main, r)
    BY <1>1, <1>7, <2>1, <2>2, <2>7, <2>8 DEF Fetched
  <2>9. Live(q, w.main, o)
    BY <2>1, <2>2 DEF Live
  <2>10. Fetched(wt, tk, q, w.main, s)
    <3>1. wt[s] # {} /\ tk[s] = o
      BY <1>1
    <3>2. \A x \in DOMAIN w.op : w.op[x].src = s => ~Live(w.op, w.main, x)
      BY <1>10 DEF Fetched, Good
    <3> HIDE DEF wt, tk, o
    <3> QED BY <2>1, <2>2, <2>7, <2>9, <3>1, <3>2 DEF Fetched
  <2>11. Good(u, mv)
    BY <1>6, <2>3, <2>5, <2>6, <2>8, <2>10 DEF Good
  <2> QED BY <1>10, <2>11 DEF Enrolled, j, u, new, q
<1> QED BY <1>8, <1>9, <1>10

\* A view gets other flags or its own picture.
LEMMA ViewGood ==
    ASSUME NEW w, NEW mv, Good(w, mv), NEW v \in Views, NEW r \in ViewT, NEW u \in World,
           v \notin mv =>
              /\ r.src = w.view[v].src
              /\ r.pic \in {Nothing, r.src}
              /\ r.loading \/ r.loaded \/ \A s \in Srcs : v \notin w.waiting[s],
           u.view = [w.view EXCEPT ![v] = r], u.waiting = w.waiting, u.task = w.task,
           u.op = w.op, u.main = w.main
    PROVE  Good(u, mv)
<1>1. w \in World /\ w.view \in [Views -> ViewT]
  BY DEF Good, World
<1>2. Owns(u.view, u.waiting, u.main, mv)
  <2> SUFFICES ASSUME NEW x \in Views \ mv
               PROVE  /\ u.view[x].pic \in {Nothing, u.view[x].src}
                      /\ \A s \in Srcs : x \in w.waiting[s] =>
                            s = u.view[x].src /\ (u.view[x].loading \/ u.view[x].loaded)
                      /\ u.view[x].src = w.view[x].src
    BY <1>1 DEF Owns, Good
  <2>1. CASE x = v
    <3>1. /\ u.view[x] = r /\ r.src = w.view[x].src /\ r.pic \in {Nothing, r.src}
          /\ r.loading \/ r.loaded \/ \A s \in Srcs : x \notin w.waiting[s]
      BY <1>1, <2>1
    <3>2. \A s \in Srcs : x \in w.waiting[s] => s = r.src
      BY <2>1, <3>1 DEF Owns, Good
    <3>3. \A s \in Srcs : x \in w.waiting[s] => r.loading \/ r.loaded
      BY <3>1
    <3> QED BY <3>1, <3>2, <3>3
  <2>2. CASE x # v
    BY <1>1, <2>2 DEF Owns, Good
  <2> QED BY <2>1, <2>2
<1> QED BY <1>2 DEF Good

LEMMA ShowsType ==
    ASSUME NEW r \in ViewT, NEW s \in Srcs \cup {Nothing}
    PROVE  /\ Shows(r, s) \in ViewT /\ Shows(r, s).src = r.src /\ Shows(r, s).pic = s
           /\ Shows(r, s).loaded /\ ~Shows(r, s).loading
BY DEF Shows, ViewT

\* A view shows the picture of its address, which may be new in memory.
LEMMA ShowsGood ==
    ASSUME NEW w, NEW mv, Good(w, mv), NEW v \in Views, NEW s \in Srcs,
           v \notin mv => w.view[v].src = s
    PROVE  /\ Good([w EXCEPT !.view[v] = Shows(@, s)], mv)
           /\ Good([w EXCEPT !.cached = @ \cup {s}, !.view[v] = Shows(@, s)], mv)
<1> DEFINE a == [w EXCEPT !.view[v] = Shows(@, s)]
           b == [w EXCEPT !.cached = @ \cup {s}, !.view[v] = Shows(@, s)]
           r == Shows(w.view[v], s)
<1>1. w \in World /\ w.view \in [Views -> ViewT]
  BY DEF Good, World
<1>2. /\ r \in ViewT /\ r.src = w.view[v].src /\ r.pic = s /\ r.loaded
  BY <1>1, ShowsType
<1> HIDE DEF r
<1>3. [w.view EXCEPT ![v] = r] \in [Views -> ViewT]
  BY <1>1, <1>2
<1>4. /\ a.view = [w.view EXCEPT ![v] = r] /\ a.waiting = w.waiting /\ a.task = w.task
      /\ a.op = w.op /\ a.main = w.main /\ a \in World
  BY <1>1, <1>3 DEF World, r
<1>5. /\ b.view = [w.view EXCEPT ![v] = r] /\ b.waiting = w.waiting /\ b.task = w.task
      /\ b.op = w.op /\ b.main = w.main /\ b \in World
  BY <1>1, <1>3 DEF World, r
<1> HIDE DEF a, b
<1>6. Good(a, mv)
  BY <1>2, <1>4, ViewGood
<1>7. Good(b, mv)
  BY <1>2, <1>5, ViewGood
<1> QED BY <1>6, <1>7 DEF a, b

\* A block that ends no operation is posted, or run.
LEMMA PostGood ==
    ASSUME NEW w, NEW mv, Good(w, mv), NEW b \in BlockT,
           b.op = 0, b.kind \notin Ending, b.view \in Views,
           b.kind \in Reading /\ b.view \notin mv => b.src = w.view[b.view].src
    PROVE  Good([w EXCEPT !.main = Append(@, b)], mv)
<1> DEFINE m == Append(w.main, b)
           u == [w EXCEPT !.main = m]
<1>1. w \in World /\ w.main \in Seq(BlockT) /\ w.op \in Seq(OpT)
  BY DEF Good, World
<1>2. /\ m \in Seq(BlockT) /\ DOMAIN m = DOMAIN w.main \cup {Len(w.main) + 1}
      /\ m[Len(w.main) + 1] = b /\ \A i \in DOMAIN w.main : m[i] = w.main[i]
  BY <1>1
<1>3. /\ u \in World /\ u.view = w.view /\ u.waiting = w.waiting /\ u.task = w.task
      /\ u.op = w.op /\ u.main = m
  BY <1>1, <1>2 DEF World
<1> HIDE DEF m, u
<1>4. \A o \in DOMAIN w.op : Live(w.op, m, o) <=> Live(w.op, w.main, o)
  <2>1. \A o \in DOMAIN w.op : o # 0
    BY <1>1
  <2> QED BY <1>2, <2>1 DEF Live
<1>5. Posted(w.op, m)
  BY <1>2 DEF Posted, Good
<1>6. Owns(w.view, w.waiting, m, mv)
  BY <1>2 DEF Owns, Good
<1>7. \A s \in Srcs : Fetched(w.waiting, w.task, w.op, m, s)
  BY <1>4 DEF Fetched, Good
<1>8. Good(u, mv)
  BY <1>3, <1>5, <1>6, <1>7 DEF Good
<1> QED BY <1>8 DEF u, m

LEMMA RunGood ==
    ASSUME NEW w, NEW mv, Good(w, mv), w.main # <<>>, Head(w.main).kind \notin Ending
    PROVE  Good([w EXCEPT !.main = Tail(@)], mv)
<1> DEFINE m == Tail(w.main)
           u == [w EXCEPT !.main = m]
<1>1. w \in World /\ w.main \in Seq(BlockT) /\ w.op \in Seq(OpT)
  BY DEF Good, World
<1>2. /\ m \in Seq(BlockT) /\ 1 \in DOMAIN w.main
      /\ \A i \in DOMAIN m : i + 1 \in DOMAIN w.main /\ m[i] = w.main[i + 1]
      /\ \A i \in DOMAIN w.main : i = 1 \/ (i - 1 \in DOMAIN m /\ i - 1 + 1 = i)
  BY <1>1
<1>3. /\ u \in World /\ u.view = w.view /\ u.waiting = w.waiting /\ u.task = w.task
      /\ u.op = w.op /\ u.main = m
  BY <1>1, <1>2 DEF World
<1>9. w.main[1].op = 0
  BY <1>1, <1>2 DEF Posted, Good
<1> HIDE DEF m, u
<1>4. \A o \in DOMAIN w.op : Live(w.op, m, o) <=> Live(w.op, w.main, o)
  <2>1. \A o \in DOMAIN w.op : o # 0
    BY <1>1
  <2>2. \A o \in DOMAIN w.op :
           (\E i \in DOMAIN m : m[i].op = o) <=> (\E i \in DOMAIN w.main : w.main[i].op = o)
    BY <1>2, <1>9, <2>1
  <2> QED BY <2>2 DEF Live
<1>5. Posted(w.op, m)
  <2>1. \A i, j \in DOMAIN m : i + 1 = j + 1 => i = j
    BY <1>2
  <2> QED BY <1>2, <2>1 DEF Posted, Good
<1>6. Owns(w.view, w.waiting, m, mv)
  BY <1>2 DEF Owns, Good
<1>7. \A s \in Srcs : Fetched(w.waiting, w.task, w.op, m, s)
  BY <1>4 DEF Fetched, Good
<1>8. Good(u, mv)
  BY <1>3, <1>5, <1>6, <1>7 DEF Good
<1> QED BY <1>8 DEF u, m

\* handle, for a view that asks for its own address.
LEMMA FromFileGood ==
    ASSUME NEW w, NEW mv, Good(w, mv), NEW v \in Views, NEW s \in Srcs, NEW type,
           v \notin mv => w.view[v].src = s
    PROVE  Good(FromFile(w, v, s, type), mv)
BY ShowsGood, EnrolledGood DEF FromFile

LEMMA HandledGood ==
    ASSUME NEW w, NEW mv, Good(w, mv), NEW v \in Views, NEW type \in Reading
    PROVE  Good(Handled(w, v, type), mv)
<1> DEFINE s == w.view[v].src
           b == [kind |-> type, view |-> v, src |-> s, op |-> 0]
<1>1. w.view \in [Views -> ViewT]
  BY DEF Good, World
<1>2. s \in Srcs
  BY <1>1 DEF ViewT
<1>3. /\ b \in BlockT /\ b.op = 0 /\ b.kind \notin Ending /\ b.view = v /\ b.src = s
  BY <1>2 DEF BlockT, Reading, Ending
<1> HIDE DEF b
<1>4. Good([w EXCEPT !.main = Append(@, b)], mv)
  BY <1>3, PostGood
<1>5. Good([w EXCEPT !.view[v] = Shows(@, s)], mv)
  BY <1>2, ShowsGood
<1>6. Good(FromFile(w, v, s, type), mv)
  BY <1>2, FromFileGood
<1> QED BY <1>4, <1>5, <1>6 DEF Handled, b

\* A view leaves the list of its address, and with the last one the download ends.
LEMMA CancelledGood ==
    ASSUME NEW w, NEW mv, Good(w, mv), NEW v \in Views
    PROVE  Good(Cancelled(w, v), mv)
<1> DEFINE s == w.view[v].src
           a == [w EXCEPT !.view[v].loading = FALSE]
           vw == [w.view EXCEPT ![v] = [w.view[v] EXCEPT !.loading = FALSE]]
           wt == [w.waiting EXCEPT ![s] = w.waiting[s] \ {v}]
           rest == [a EXCEPT !.waiting[s] = @ \ {v}]
<1> SUFFICES ASSUME w.waiting[s] # {}
             PROVE  Good(Left(a, s, {v}), mv)
  BY DEF Cancelled
<1>1. /\ w \in World /\ w.view \in [Views -> ViewT] /\ w.waiting \in [Srcs -> SUBSET Views]
      /\ w.task \in [Srcs -> Nat] /\ w.op \in Seq(OpT) /\ w.main \in Seq(BlockT)
  BY WorldFields DEF Good
<1>2. s \in Srcs
  BY <1>1 DEF ViewT
<1>3. \A r \in ViewT : LET l == [r EXCEPT !.loading = FALSE]
                       IN  l \in ViewT /\ l.src = r.src /\ l.pic = r.pic
  BY DEF ViewT
<1>4. vw \in [Views -> ViewT] /\ wt \in [Srcs -> SUBSET Views]
  BY <1>1, <1>2, <1>3
<1>5. /\ a \in World /\ a.view = vw /\ a.waiting = w.waiting /\ a.task = w.task
      /\ a.op = w.op /\ a.main = w.main
  BY <1>1, <1>4 DEF World
<1> HIDE DEF a
<1>6. /\ rest \in World /\ rest.view = vw /\ rest.waiting = wt /\ rest.task = w.task
      /\ rest.op = w.op /\ rest.main = w.main
  BY <1>1, <1>4, <1>5 DEF World
<1> HIDE DEF rest
<1>7. Owns(vw, wt, w.main, mv)
  <2> SUFFICES ASSUME NEW x \in Views \ mv
               PROVE  /\ vw[x].pic \in {Nothing, vw[x].src}
                      /\ \A r \in Srcs : x \in wt[r] =>
                            r = vw[x].src /\ (vw[x].loading \/ vw[x].loaded)
                      /\ vw[x].src = w.view[x].src
    BY DEF Owns, Good
  <2>1. \A r \in Srcs : x \in wt[r] => x \in w.waiting[r] /\ (r = s => x # v)
    BY <1>1
  <2>2. CASE x = v
    BY <1>1, <1>3, <2>1, <2>2 DEF Owns, Good
  <2>3. CASE x # v
    BY <1>1, <2>1, <2>3 DEF Owns, Good
  <2> QED BY <2>2, <2>3
<1>8. CASE wt[s] # {}
  <2>1. \A r \in Srcs : Fetched(wt, w.task, w.op, w.main, r)
    BY <1>1, <1>8 DEF Fetched, Good
  <2>2. Good(rest, mv)
    BY <1>6, <1>7, <2>1 DEF Good
  <2> QED BY <1>6, <1>8, <2>2 DEF Left, rest
<1>9. CASE wt[s] = {}
  <2> DEFINE t == w.task[s]
             q == [o \in DOMAIN w.op |-> IF o = t THEN [w.op[o] EXCEPT !.cancelled = TRUE]
                                                  ELSE w.op[o]]
             tk == [w.task EXCEPT ![s] = 0]
             u == Stopped(rest, s)
  <2>1. \A e \in OpT : LET c == [e EXCEPT !.cancelled = TRUE]
                       IN  c \in OpT /\ c.src = e.src /\ c.stage = e.stage /\ c.cancelled
    BY DEF OpT
  <2>2. q \in Seq(OpT) /\ DOMAIN q = DOMAIN w.op
    <3>1. Len(w.op) \in Nat /\ DOMAIN w.op = 1..Len(w.op) /\ \A o \in DOMAIN w.op : w.op[o] \in OpT
      BY <1>1
    <3>2. q \in [1..Len(w.op) -> OpT]
      BY <2>1, <3>1
    <3> HIDE DEF q
    <3> QED BY <3>1, <3>2, SeqDef
  <2>3. u \in World /\ u.view = vw /\ u.waiting = wt /\ u.task = tk /\ u.op = q /\ u.main = w.main
    <3>1. u = [rest EXCEPT !.op = [o \in DOMAIN w.op |-> IF o = t
                                       THEN [w.op[o] EXCEPT !.cancelled = TRUE] ELSE w.op[o]],
                           !.task[s] = 0]
      BY <1>6 DEF Stopped, World
    <3> HIDE DEF u
    <3>2. u = [rest EXCEPT !.op = q, !.task[s] = 0]
      BY <3>1
    <3> HIDE DEF q, t
    <3>3. tk \in [Srcs -> Nat]
      BY <1>1
    <3>4. /\ u.view = vw /\ u.waiting = wt /\ u.task = tk /\ u.op = q /\ u.main = w.main
          /\ u.cached = rest.cached
      BY <1>6, <3>2 DEF World
    <3> QED BY <1>1, <1>4, <1>6, <2>2, <3>2, <3>3, <3>4 DEF World
  <2>4. \A o \in DOMAIN w.op : q[o].src = w.op[o].src /\ q[o].stage = w.op[o].stage
    BY <1>1, <2>1
  <2>5. \A o \in DOMAIN w.op : Live(q, w.main, o) => o # t /\ Live(w.op, w.main, o)
    BY <1>1, <2>1 DEF Live
  <2>6. \A o \in DOMAIN w.op : o # t /\ Live(w.op, w.main, o) => Live(q, w.main, o)
    BY DEF Live
  <2>7. Posted(q, w.main)
    BY <2>2, <2>4 DEF Posted, Good
  <2>8. t \in DOMAIN w.op /\ w.op[t].src = s
    BY <1>2 DEF Fetched, Good
  <2> HIDE DEF q, u
  <2>9. ASSUME NEW r \in Srcs
        PROVE  Fetched(wt, tk, q, w.main, r)
    <3>1. CASE r = s
      <4>1. \A o \in DOMAIN q : q[o].src = s => ~Live(q, w.main, o)
        BY <1>2, <2>2, <2>4, <2>5 DEF Fetched, Good
      <4> QED BY <1>9, <3>1, <4>1 DEF Fetched
    <3>2. CASE r # s
      <4>1. wt[r] = w.waiting[r] /\ tk[r] = w.task[r]
        BY <1>1, <3>2
      <4>2. Fetched(w.waiting, w.task, w.op, w.main, r)
        BY DEF Good
      <4> HIDE DEF wt, tk
      <4> QED BY <2>2, <2>4, <2>5, <2>6, <2>8, <3>2, <4>1, <4>2 DEF Fetched
    <3> QED BY <3>1, <3>2
  <2>10. Good(u, mv)
    BY <1>7, <2>3, <2>7, <2>9 DEF Good
  <2> QED BY <1>6, <1>9, <2>10 DEF Left, rest, u
<1> QED BY <1>8, <1>9

LEMMA CancelDownloadGood ==
    ASSUME NEW w, NEW mv, Good(w, mv), NEW v \in Views
    PROVE  Good(CancelDownload(w, v), mv)
BY CancelledGood DEF CancelDownload

LEMMA LoadLocalGood ==
    ASSUME NEW w, NEW mv, Good(w, mv), NEW v \in Views
    PROVE  Good(LoadLocal(w, v), mv)
BY CancelDownloadGood, HandledGood DEF LoadLocal, Reading

LEMMA DownloadGood ==
    ASSUME NEW w, NEW mv, Good(w, mv), NEW v \in Views
    PROVE  Good(Download(w, v), mv)
BY HandledGood DEF Download, Reading

\* A view that is at rest, or moved from now on, is given an address.
LEMMA AddressedGood ==
    ASSUME IInv, NEW v \in Views, NEW s \in Srcs, Moves(v, s)
    PROVE  Good([Now EXCEPT !.view[v] = Addressed(@, s)], moved')
<1> DEFINE r == Addressed(view[v], s)
           u == [Now EXCEPT !.view[v] = Addressed(@, s)]
           vw == [view EXCEPT ![v] = r]
<1>1. /\ Now \in World /\ view \in [Views -> ViewT] /\ main \in Seq(BlockT)
      /\ Now.view = view /\ Now.waiting = waiting /\ Now.task = task /\ Now.op = op
      /\ Now.cached = cached /\ Now.main = main
  BY DEF IInv, Good, TypeOK, Now
<1>2. /\ r \in ViewT /\ r.src = s
      /\ IF s = view[v].src THEN r = view[v] ELSE r.pic = Nothing
  BY <1>1 DEF Addressed, ViewT
<1> HIDE DEF r
<1>3. vw \in [Views -> ViewT]
  BY <1>1, <1>2
<1>4. /\ u \in World /\ u.view = vw /\ u.waiting = waiting /\ u.task = task
      /\ u.op = op /\ u.main = main
  BY <1>1, <1>3 DEF World, r
<1>5. Owns(view, waiting, main, moved)
  BY <1>1 DEF IInv, Good
<1>6. Owns(vw, waiting, main, moved')
  <2> SUFFICES ASSUME NEW x \in Views \ moved'
               PROVE  /\ vw[x].pic \in {Nothing, vw[x].src}
                      /\ \A p \in Srcs : x \in waiting[p] =>
                            p = vw[x].src /\ (vw[x].loading \/ vw[x].loaded)
                      /\ \A i \in DOMAIN main :
                            main[i].kind \in Reading /\ main[i].view = x => main[i].src = vw[x].src
    BY DEF Owns
  <2>1. CASE s = view[v].src
    <3>1. vw = view /\ moved' = moved
      BY <1>1, <1>2, <2>1 DEF Moves
    <3> QED BY <1>5, <3>1 DEF Owns
  <2>2. CASE s # view[v].src /\ x # v
    <3>1. vw[x] = view[x] /\ x \notin moved
      BY <1>1, <2>2 DEF Moves
    <3> QED BY <1>5, <3>1 DEF Owns
  <2>3. CASE s # view[v].src /\ x = v
    <3>1. ~Busy(v)
      BY <2>3 DEF Moves
    <3>2. ~view[v].loading /\ \A i \in DOMAIN main : ~(main[i].kind \in Reading /\ main[i].view = v)
      BY <3>1 DEF Busy, Reads, Reading
    <3>3. \A p \in Srcs : v \notin waiting[p]
      <4> SUFFICES ASSUME NEW p \in Srcs, v \in waiting[p] PROVE FALSE
        OBVIOUS
      <4>1. ~view[v].loaded /\ v \notin moved
        BY <3>1 DEF Busy
      <4>2. view[v].loading \/ view[v].loaded
        BY <1>5, <4>1 DEF Owns
      <4> QED BY <3>2, <4>1, <4>2
    <3>4. vw[x].pic = Nothing
      BY <1>1, <1>2, <2>3
    <3> QED BY <2>3, <3>2, <3>3, <3>4
  <2> QED BY <2>1, <2>2, <2>3
<1> HIDE DEF u, vw
<1>7. Good(u, moved')
  BY <1>1, <1>4, <1>6 DEF IInv, Good
<1> QED BY <1>7 DEF u

-----------------------------------------------------------------------------
(* The steps of the main thread.                                           *)

LEMMA NowGood ==
    ASSUME IInv
    PROVE  /\ Good(Now, moved) /\ Now \in World
           /\ Now.view = view /\ Now.waiting = waiting /\ Now.task = task /\ Now.op = op
           /\ Now.cached = cached /\ Now.main = main
           /\ view \in [Views -> ViewT] /\ waiting \in [Srcs -> SUBSET Views]
           /\ task \in [Srcs -> Nat] /\ op \in Seq(OpT) /\ main \in Seq(BlockT)
           /\ moved \subseteq Views /\ file \in [Srcs -> {"none", "image", "junk"}]
BY DEF IInv, Good, TypeOK, Now

LEMMA BecomesInv ==
    ASSUME NEW u, Becomes(u), Good(u, moved'), moved' \subseteq Views,
           file' \in [Srcs -> {"none", "image", "junk"}]
    PROVE  IInv'
<1>1. u \in World
  BY DEF Good
<1>2. TypeOK'
  BY <1>1, WorldFields DEF Becomes, TypeOK
<1>3. /\ Now'.view = u.view /\ Now'.waiting = u.waiting /\ Now'.task = u.task /\ Now'.op = u.op
      /\ Now'.cached = u.cached /\ Now'.main = u.main /\ Now' \in World
  BY <1>1 DEF Becomes, Now, World
<1>4. Good(Now, moved)'
  BY <1>3 DEF Good
<1> QED BY <1>2, <1>4 DEF IInv

LEMMA MovesType ==
    ASSUME IInv, NEW v \in Views, NEW s \in Srcs, Moves(v, s)
    PROVE  moved' \subseteq Views
BY NowGood DEF Moves

LEMMA RebindStep ==
    ASSUME IInv, NEW v \in Views, NEW s \in Srcs, Rebind(v, s)
    PROVE  IInv'
<1> DEFINE a == [Now EXCEPT !.view[v] = Addressed(@, s)]
           w == LoadLocal(CancelDownload(a, v), v)
           b == [kind |-> "download", view |-> v, src |-> s, op |-> 0]
           u == [w EXCEPT !.main = Append(@, b)]
<1>1. Good(a, moved')
  BY AddressedGood DEF Rebind
<1>2. Good(w, moved')
  BY <1>1, CancelDownloadGood, LoadLocalGood
<1>3. /\ b \in BlockT /\ b.op = 0 /\ b.kind \notin Ending /\ b.kind \notin Reading /\ b.view \in Views
  BY DEF BlockT, Ending, Reading
<1> HIDE DEF w, b
<1>4. Good(u, moved')
  BY <1>2, <1>3, PostGood
<1>5. Becomes(u)
  BY DEF Rebind, w, b
<1>6. moved' \subseteq Views /\ file' = file
  BY MovesType DEF Rebind
<1> HIDE DEF u
<1> QED BY <1>4, <1>5, <1>6, NowGood, BecomesInv

LEMMA SetHeaderStep ==
    ASSUME IInv, NEW v \in Views, NEW s \in Srcs, SetHeader(v, s)
    PROVE  IInv'
<1>1. Good([Now EXCEPT !.view[v] = Addressed(@, s)], moved')
  BY AddressedGood DEF SetHeader
<1>2. Good(Headed(v, s), moved')
  BY <1>1, CancelDownloadGood, DownloadGood DEF Headed
<1>3. moved' \subseteq Views /\ file' = file /\ Becomes(Headed(v, s))
  BY MovesType DEF SetHeader
<1> QED BY <1>2, <1>3, NowGood, BecomesInv

LEMMA PageStep ==
    ASSUME IInv, NEW v \in Views, PageLoads(v) \/ PageDownloads(v) \/ PageCancels(v)
    PROVE  IInv'
<1>1. file' = file /\ moved' = moved
  BY DEF PageLoads, PageDownloads, PageCancels
<1>2. CASE PageLoads(v)
  <2>1. Good(LoadLocal(Now, v), moved)
    BY NowGood, LoadLocalGood
  <2> QED BY <1>1, <1>2, <2>1, NowGood, BecomesInv DEF PageLoads
<1>3. CASE PageDownloads(v)
  <2>1. Good(Download(Now, v), moved)
    BY NowGood, DownloadGood
  <2> QED BY <1>1, <1>3, <2>1, NowGood, BecomesInv DEF PageDownloads
<1>4. CASE PageCancels(v)
  <2>1. Good(Cancelled(Now, v), moved)
    BY NowGood, CancelledGood
  <2> QED BY <1>1, <1>4, <2>1, NowGood, BecomesInv DEF PageCancels
<1> QED BY <1>2, <1>3, <1>4

LEMMA DownloadBlockStep ==
    ASSUME IInv, DownloadBlock
    PROVE  IInv'
<1> DEFINE u == [Now EXCEPT !.main = Tail(@)]
           v == Head(main).view
<1>1. main # <<>> /\ Head(main).kind \notin Ending /\ main[1] = Head(main) /\ 1 \in DOMAIN main
  BY NowGood DEF DownloadBlock, Ending
<1>2. v \in Views
  BY <1>1, NowGood DEF Good, Posted
<1>3. Good(u, moved)
  BY <1>1, NowGood, RunGood
<1>4. Becomes(Download(u, v)) /\ moved' = moved /\ file' = file
  BY DEF DownloadBlock
<1> HIDE DEF u, v
<1>5. Good(Download(u, v), moved)
  BY <1>2, <1>3, DownloadGood
<1> QED BY <1>4, <1>5, NowGood, BecomesInv

LEMMA ReadBlockStep ==
    ASSUME IInv, ReadBlock
    PROVE  IInv'
<1> DEFINE u == [Now EXCEPT !.main = Tail(@)]
           v == Head(main).view
           s == Head(main).src
           type == Head(main).kind
<1>1. /\ main # <<>> /\ type \notin Ending /\ type \in Reading /\ main[1] = Head(main)
      /\ 1 \in DOMAIN main /\ Head(main) \in BlockT
  BY NowGood DEF ReadBlock, Ending, Reading
<1>2. v \in Views /\ s \in Srcs
  BY <1>1, NowGood DEF Good, Posted, BlockT
<1>3. Good(u, moved)
  BY <1>1, NowGood, RunGood
<1>4. u.view = view
  BY NowGood DEF World
<1>5. v \notin moved => view[v].src = s
  BY <1>1, <1>2, NowGood DEF Good, Owns
<1>6. Becomes(FromFile(u, v, s, type)) /\ moved' = moved /\ file' = file
  BY DEF ReadBlock
<1> HIDE DEF u, v, s, type
<1>7. Good(FromFile(u, v, s, type), moved)
  BY <1>2, <1>3, <1>4, <1>5, FromFileGood
<1> QED BY <1>6, <1>7, NowGood, BecomesInv

LEMMA MemoryWarningStep ==
    ASSUME IInv, MemoryWarning
    PROVE  IInv'
<1> DEFINE c == {s \in cached : \E v \in Views : view[v].pic = s}
           u == [Now EXCEPT !.cached = c]
<1>1. /\ u \in World /\ u.view = view /\ u.waiting = waiting /\ u.task = task /\ u.op = op
      /\ u.main = main /\ u.cached = c
  BY NowGood DEF World
<1> HIDE DEF u, c
<1>2. Good(u, moved)
  BY <1>1, NowGood DEF Good
<1>3. Becomes(u) /\ moved' = moved /\ file' = file
  BY <1>1 DEF MemoryWarning, Becomes, c
<1> QED BY <1>2, <1>3, NowGood, BecomesInv

LEMMA CloseScreenStep ==
    ASSUME IInv, CloseScreen
    PROVE  IInv'
<1> DEFINE Empties(s) == waiting[s] # {} /\ waiting[s] \ Leaving(s) = {}
           Ends(o) == \E s \in Srcs : o = task[s] /\ Empties(s)
<1>1. /\ view \in [Views -> ViewT] /\ waiting \in [Srcs -> SUBSET Views]
      /\ task \in [Srcs -> Nat] /\ op \in Seq(OpT) /\ main \in Seq(BlockT)
  BY NowGood
<1>2. /\ Owns(view, waiting, main, moved) /\ Posted(op, main)
      /\ \A s \in Srcs : Fetched(waiting, task, op, main, s)
  BY NowGood DEF Good
<1>3. UNCHANGED <<cached, file, main, moved>>
  BY DEF CloseScreen
<1>4. /\ waiting' \in [Srcs -> SUBSET Views]
      /\ \A s \in Srcs : waiting'[s] = waiting[s] \ Leaving(s)
  BY <1>1 DEF CloseScreen
<1>5. /\ task' \in [Srcs -> Nat]
      /\ \A s \in Srcs : waiting'[s] # {} => task'[s] = task[s]
  BY <1>1, <1>4 DEF CloseScreen
<1>6. \A r \in ViewT : LET l == [r EXCEPT !.loading = FALSE]
                       IN  l \in ViewT /\ l.src = r.src /\ l.pic = r.pic
  BY DEF ViewT
<1>7. /\ view' \in [Views -> ViewT]
      /\ \A v \in Views : /\ view'[v].src = view[v].src /\ view'[v].pic = view[v].pic
                          /\ (\A s \in Srcs : v \notin Leaving(s)) => view'[v] = view[v]
  BY <1>1, <1>6 DEF CloseScreen
<1>8. \A e \in OpT : LET c == [e EXCEPT !.cancelled = TRUE]
                     IN  c \in OpT /\ c.src = e.src /\ c.stage = e.stage /\ c.cancelled
  BY DEF OpT
<1>9. op' = [o \in DOMAIN op |-> IF Ends(o) THEN [op[o] EXCEPT !.cancelled = TRUE] ELSE op[o]]
  BY DEF CloseScreen
<1> HIDE DEF Ends
<1>10. Len(op) \in Nat /\ DOMAIN op = 1..Len(op) /\ \A o \in DOMAIN op : op[o] \in OpT
  BY <1>1
<1>11. op' \in [1..Len(op) -> OpT]
  BY <1>8, <1>9, <1>10
<1>12. op' \in Seq(OpT) /\ DOMAIN op' = DOMAIN op
  BY <1>10, <1>11, SeqDef
<1>13. \A o \in DOMAIN op : op'[o].src = op[o].src /\ op'[o].stage = op[o].stage
  BY <1>8, <1>9, <1>10
<1>14. \A o \in DOMAIN op : Live(op', main, o) <=> ~Ends(o) /\ Live(op, main, o)
  <2> SUFFICES ASSUME NEW o \in DOMAIN op
               PROVE  Live(op', main, o) <=> ~Ends(o) /\ Live(op, main, o)
    OBVIOUS
  <2>1. CASE Ends(o)
    <3>1. op'[o].cancelled
      BY <1>8, <1>9, <1>10, <2>1
    <3> QED BY <2>1, <3>1 DEF Live
  <2>2. CASE ~Ends(o)
    <3>1. op'[o] = op[o]
      BY <1>9, <2>2
    <3> QED BY <2>2, <3>1 DEF Live
  <2> QED BY <2>1, <2>2
<1>15. TypeOK'
  BY <1>3, <1>4, <1>5, <1>7, <1>12 DEF IInv, TypeOK
<1>16. Owns(view', waiting', main, moved)
  <2> SUFFICES ASSUME NEW x \in Views \ moved
               PROVE  /\ view'[x].pic \in {Nothing, view'[x].src}
                      /\ \A s \in Srcs : x \in waiting'[s] =>
                            s = view'[x].src /\ (view'[x].loading \/ view'[x].loaded)
                      /\ view'[x].src = view[x].src
    BY <1>2 DEF Owns
  <2>1. view'[x].pic \in {Nothing, view'[x].src} /\ view'[x].src = view[x].src
    BY <1>2, <1>7 DEF Owns
  <2>2. ASSUME NEW s \in Srcs, x \in waiting'[s]
        PROVE  s = view'[x].src /\ (view'[x].loading \/ view'[x].loaded)
    <3>1. x \in waiting[s] /\ x \notin Paged
      BY <1>4, <2>2 DEF Leaving
    <3>2. view'[x] = view[x]
      BY <1>7, <3>1 DEF Leaving
    <3> QED BY <1>2, <3>1, <3>2 DEF Owns
  <2> QED BY <2>1, <2>2
<1>17. Posted(op', main)
  BY <1>2, <1>12, <1>13 DEF Posted
<1>18. ASSUME NEW s \in Srcs
       PROVE  Fetched(waiting', task', op', main, s)
  <2>1. Fetched(waiting, task, op, main, s)
    BY <1>2
  <2>2. ASSUME NEW o \in DOMAIN op', op'[o].src = s, Live(op', main, o)
        PROVE  waiting'[s] # {} /\ task'[s] = o
    <3>1. waiting[s] # {} /\ task[s] = o /\ ~Ends(o)
      BY <1>12, <1>13, <1>14, <2>1, <2>2 DEF Fetched
    <3>2. waiting'[s] # {}
      BY <1>4, <3>1 DEF Ends
    <3> QED BY <1>5, <3>1, <3>2
  <2>3. ASSUME waiting'[s] # {}
        PROVE  task'[s] \in DOMAIN op' /\ op'[task'[s]].src = s /\ Live(op', main, task'[s])
    <3>1. waiting[s] # {} /\ task'[s] = task[s]
      BY <1>4, <1>5, <2>3
    <3>2. task[s] \in DOMAIN op /\ op[task[s]].src = s /\ Live(op, main, task[s])
      BY <2>1, <3>1 DEF Fetched
    <3>3. ~Ends(task[s])
      <4> SUFFICES ASSUME NEW p \in Srcs, task[s] = task[p], Empties(p) PROVE FALSE
        BY DEF Ends
      <4>1. op[task[p]].src = p
        BY <1>2 DEF Fetched
      <4> QED BY <1>4, <2>3, <3>2, <4>1
    <3> QED BY <1>12, <1>13, <1>14, <3>1, <3>2, <3>3
  <2> QED BY <2>2, <2>3 DEF Fetched
<1>19. Good(Now, moved)'
  <2>1. Now' \in World
    BY <1>15 DEF TypeOK, Now, World
  <2> QED BY <1>3, <1>16, <1>17, <1>18, <2>1 DEF Good, Now
<1> QED BY <1>15, <1>19 DEF IInv

-----------------------------------------------------------------------------
(* The operations.                                                         *)

\* The operations and their blocks change, and nobody is to be told less.
LEMMA OpsInv ==
    ASSUME IInv, op' \in Seq(OpT), main' \in Seq(BlockT), DOMAIN op' = DOMAIN op,
           \A x \in DOMAIN op : /\ op'[x].src = op[x].src
                                /\ Live(op', main', x) <=> Live(op, main, x),
           Posted(op', main'), Owns(view, waiting, main', moved),
           UNCHANGED <<view, waiting, task, cached, moved>>,
           file' \in [Srcs -> {"none", "image", "junk"}]
    PROVE  IInv'
<1>1. TypeOK'
  BY DEF IInv, TypeOK
<1>2. Now' \in World
  BY <1>1 DEF TypeOK, Now, World
<1>3. ASSUME NEW s \in Srcs
      PROVE  Fetched(waiting, task, op', main', s)
  <2>1. Fetched(waiting, task, op, main, s)
    BY NowGood DEF Good
  <2> QED BY <2>1 DEF Fetched
<1>4. Good(Now, moved)'
  BY <1>2, <1>3 DEF Good, Now
<1> QED BY <1>1, <1>4 DEF IInv

\* The facts about an operation that goes to another stage.
LEMMA StageFacts ==
    ASSUME IInv, NEW o \in DOMAIN op, NEW stage \in Stages
    PROVE  LET q == [op EXCEPT ![o].stage = stage]
           IN  /\ q \in Seq(OpT) /\ DOMAIN q = DOMAIN op
               /\ \A x \in DOMAIN op : x # o => q[x] = op[x]
               /\ q[o].src = op[o].src /\ q[o].cancelled = op[o].cancelled
               /\ q[o].stage = stage /\ o # 0 /\ o \in Nat
<1> DEFINE e == [op[o] EXCEPT !.stage = stage]
           q == [op EXCEPT ![o] = e]
<1>1. op \in Seq(OpT) /\ op[o] \in OpT /\ o # 0 /\ o \in Nat
  BY NowGood
<1>2. /\ e \in OpT /\ e.src = op[o].src /\ e.cancelled = op[o].cancelled /\ e.stage = stage
  BY <1>1 DEF OpT
<1> HIDE DEF e
<1>3. q \in Seq(OpT) /\ DOMAIN q = DOMAIN op
  BY <1>1, <1>2
<1>4. q[o] = e /\ \A x \in DOMAIN op : x # o => q[x] = op[x]
  BY <1>1
<1>5. q = [op EXCEPT ![o].stage = stage]
  BY DEF e
<1> HIDE DEF q
<1> QED BY <1>1, <1>2, <1>3, <1>4, <1>5

LEMMA LandsStep ==
    ASSUME IInv, NEW o, Lands(o)
    PROVE  IInv'
<1>1. /\ o \in DOMAIN op /\ op[o].stage = "open" /\ op' = [op EXCEPT ![o].stage = "landing"]
      /\ UNCHANGED <<view, waiting, task, cached, file, main, moved>>
  BY DEF Lands, Callback, At
<1>2. /\ op' \in Seq(OpT) /\ DOMAIN op' = DOMAIN op
      /\ \A x \in DOMAIN op : x # o => op'[x] = op[x]
      /\ op'[o].src = op[o].src /\ op'[o].cancelled = op[o].cancelled /\ op'[o].stage = "landing"
  BY <1>1, StageFacts DEF Stages
<1>3. \A x \in DOMAIN op : op'[x].src = op[x].src /\ (Live(op', main, x) <=> Live(op, main, x))
  BY <1>1, <1>2 DEF Live
<1>4. Posted(op', main)
  BY <1>1, <1>2, NowGood DEF Posted, Good
<1> QED BY <1>1, <1>2, <1>3, <1>4, NowGood, OpsInv DEF Good

\* An operation ends and its block is posted.
LEMMA EndsInv ==
    ASSUME IInv, NEW o \in DOMAIN op, op[o].stage # "ended", NEW kind \in Ending,
           At(o, "ended"), Post(o, kind),
           UNCHANGED <<view, waiting, task, cached, moved>>,
           file' \in [Srcs -> {"none", "image", "junk"}]
    PROVE  IInv'
<1> DEFINE b == [kind |-> kind, view |-> Nothing, src |-> op[o].src, op |-> o]
<1>1. /\ op' \in Seq(OpT) /\ DOMAIN op' = DOMAIN op
      /\ \A x \in DOMAIN op : x # o => op'[x] = op[x]
      /\ op'[o].src = op[o].src /\ op'[o].cancelled = op[o].cancelled /\ op'[o].stage = "ended"
      /\ o # 0 /\ o \in Nat
  BY StageFacts DEF Stages, At
<1>10. op \in Seq(OpT) /\ main \in Seq(BlockT) /\ Posted(op, main)
  BY NowGood DEF Good
<1>11. op[o] \in OpT
  BY <1>10
<1>2. op[o].src \in Srcs /\ main \in Seq(BlockT)
  BY <1>10, <1>11 DEF OpT
<1>3. b \in BlockT /\ b.kind = kind /\ b.op = o /\ b.src = op[o].src
  BY <1>1, <1>2 DEF BlockT, Ending
<1>4. main' = Append(main, b)
  BY DEF Post
<1> HIDE DEF b
<1>5. /\ main' \in Seq(BlockT) /\ DOMAIN main' = DOMAIN main \cup {Len(main) + 1}
      /\ main'[Len(main) + 1] = b /\ \A i \in DOMAIN main : main'[i] = main[i]
  BY <1>2, <1>3, <1>4
<1>6. \A i \in DOMAIN main : main[i].op # o
  BY <1>1, <1>10 DEF Posted
<1>7. \A x \in DOMAIN op : op'[x].src = op[x].src /\ (Live(op', main', x) <=> Live(op, main, x))
  <2> SUFFICES ASSUME NEW x \in DOMAIN op
               PROVE  op'[x].src = op[x].src /\ (Live(op', main', x) <=> Live(op, main, x))
    OBVIOUS
  <2>1. CASE x = o
    <3>1. \E i \in DOMAIN main' : main'[i].op = o
      BY <1>3, <1>5
    <3> QED BY <1>1, <2>1, <3>1 DEF Live
  <2>2. CASE x # o
    <3>1. (\E i \in DOMAIN main' : main'[i].op = x) <=> \E i \in DOMAIN main : main[i].op = x
      BY <1>3, <1>5, <2>2
    <3> QED BY <1>1, <2>2, <3>1 DEF Live
  <2> QED BY <2>1, <2>2
<1>8. Posted(op', main')
  <2>1. \A i \in DOMAIN main :
           /\ main[i].kind \notin Ending => main[i].op = 0 /\ main[i].view \in Views
           /\ main[i].kind \in Ending => /\ main[i].op \in DOMAIN op'
                                         /\ op'[main[i].op].stage = "ended"
                                         /\ op'[main[i].op].src = main[i].src
    BY <1>1, <1>6, NowGood DEF Posted, Good
  <2>2. \A i, j \in DOMAIN main : main[i].op = main[j].op /\ main[i].op # 0 => i = j
    BY NowGood DEF Posted, Good
  <2>3. \A i \in DOMAIN main' : i \in DOMAIN main \/ (i = Len(main) + 1 /\ main'[i] = b)
    BY <1>5
  <2> QED BY <1>1, <1>3, <1>5, <1>6, <2>1, <2>2, <2>3 DEF Posted
<1>9. Owns(view, waiting, main', moved)
  <2>1. Reading \cap Ending = {}
    BY DEF Reading, Ending
  <2> QED BY <1>3, <1>5, <2>1, NowGood DEF Owns, Good
<1> QED BY <1>1, <1>5, <1>7, <1>8, <1>9, OpsInv

LEMMA EndingStep ==
    ASSUME IInv, NEW o, Landed(o) \/ Breaks(o) \/ TimesOut(o)
    PROVE  IInv'
<1>1. o \in DOMAIN op /\ op[o].stage # "ended" /\ At(o, "ended")
  BY DEF Landed, Breaks, TimesOut, Callback
<1>2. \E kind \in Ending : Post(o, kind)
  BY DEF Landed, Breaks, TimesOut, Ending
<1>3. UNCHANGED <<view, waiting, task, cached, moved>>
  BY DEF Landed, Breaks, TimesOut
<1>4. file' \in [Srcs -> {"none", "image", "junk"}]
  <2>1. op \in Seq(OpT) /\ file \in [Srcs -> {"none", "image", "junk"}]
    BY NowGood
  <2>2. op[o] \in OpT
    BY <1>1, <2>1
  <2>3. op[o].src \in Srcs
    BY <2>2 DEF OpT
  <2>4. CASE Landed(o)
    BY <2>1, <2>3, <2>4 DEF Landed
  <2>5. CASE Breaks(o) \/ TimesOut(o)
    BY <2>1, <2>5 DEF Breaks, TimesOut
  <2> QED BY <2>4, <2>5
<1> QED BY <1>1, <1>2, <1>3, <1>4, EndsInv

\* The facts about the main queue without its first block, which ends operation o.
LEMMA EndedFacts ==
    ASSUME IInv, main # <<>>, Head(main).kind \in Ending
    PROVE  LET o == Head(main).op
               m == Tail(main)
           IN  /\ m \in Seq(BlockT) /\ Head(main) \in BlockT
               /\ o \in DOMAIN op /\ o # 0 /\ op[o].stage = "ended" /\ op[o].src = Head(main).src
               /\ Live(op, main, o) <=> ~op[o].cancelled
               /\ ~Live(op, m, o)
               /\ \A x \in DOMAIN op : x # o => (Live(op, m, x) <=> Live(op, main, x))
               /\ \A i \in DOMAIN m : m[i].op # o
               /\ Posted(op, m) /\ Owns(view, waiting, m, moved)
<1> DEFINE o == Head(main).op
           m == Tail(main)
<1>1. main \in Seq(BlockT) /\ Posted(op, main) /\ Owns(view, waiting, main, moved) /\ op \in Seq(OpT)
  BY NowGood DEF Good
<1>2. /\ m \in Seq(BlockT) /\ 1 \in DOMAIN main /\ main[1] = Head(main) /\ Head(main) \in BlockT
      /\ \A i \in DOMAIN m : i + 1 \in DOMAIN main /\ m[i] = main[i + 1] /\ i + 1 # 1
      /\ \A i \in DOMAIN main : i = 1 \/ (i - 1 \in DOMAIN m /\ i - 1 + 1 = i)
  BY <1>1
<1> HIDE DEF m
<1>3. o \in DOMAIN op /\ op[o].stage = "ended" /\ op[o].src = Head(main).src
  BY <1>1, <1>2 DEF Posted
<1>4. o # 0
  BY <1>1, <1>3
<1>5. \A i \in DOMAIN m : m[i].op # o
  <2> SUFFICES ASSUME NEW i \in DOMAIN m, m[i].op = o PROVE FALSE
    OBVIOUS
  <2>1. main[i + 1].op = main[1].op /\ main[i + 1].op # 0
    BY <1>2, <1>4
  <2> QED BY <1>1, <1>2, <2>1 DEF Posted
<1>6. Live(op, main, o) <=> ~op[o].cancelled
  BY <1>2 DEF Live
<1>7. ~Live(op, m, o)
  BY <1>3, <1>5 DEF Live
<1>8. ASSUME NEW x \in DOMAIN op, x # o
      PROVE  Live(op, m, x) <=> Live(op, main, x)
  <2>1. (\E i \in DOMAIN m : m[i].op = x) <=> (\E i \in DOMAIN main : main[i].op = x)
    BY <1>2, <1>8
  <2> QED BY <2>1 DEF Live
<1>9. Posted(op, m)
  <2>1. \A i, j \in DOMAIN m : i + 1 = j + 1 => i = j
    BY <1>2
  <2> QED BY <1>1, <1>2, <2>1 DEF Posted
<1>10. Owns(view, waiting, m, moved)
  BY <1>1, <1>2 DEF Owns
<1> HIDE DEF o
<1>11. /\ m \in Seq(BlockT) /\ Head(main) \in BlockT
       /\ o \in DOMAIN op /\ o # 0 /\ op[o].stage = "ended" /\ op[o].src = Head(main).src
       /\ Live(op, main, o) <=> ~op[o].cancelled
       /\ ~Live(op, m, o)
       /\ \A x \in DOMAIN op : x # o => (Live(op, m, x) <=> Live(op, main, x))
       /\ \A i \in DOMAIN m : m[i].op # o
       /\ Posted(op, m) /\ Owns(view, waiting, m, moved)
  BY <1>2, <1>3, <1>4, <1>5, <1>6, <1>7, <1>8, <1>9, <1>10
<1> QED BY <1>11 DEF o, m

LEMMA TimeoutBlockStep ==
    ASSUME IInv, TimeoutBlock
    PROVE  IInv'
<1> DEFINE o == Head(main).op
<1>1. /\ main # <<>> /\ Head(main).kind \in Ending
      /\ op' = [op EXCEPT ![o].stage = "late"] /\ main' = Tail(main)
      /\ UNCHANGED <<view, waiting, task, cached, file, moved>>
  BY DEF TimeoutBlock, At, Ending
<1>2. /\ main' \in Seq(BlockT)
      /\ o \in DOMAIN op /\ (Live(op, main, o) <=> ~op[o].cancelled)
      /\ \A x \in DOMAIN op : x # o => (Live(op, main', x) <=> Live(op, main, x))
      /\ \A i \in DOMAIN main' : main'[i].op # o
      /\ Posted(op, main') /\ Owns(view, waiting, main', moved)
  BY <1>1, EndedFacts
<1> HIDE DEF o
<1>3. /\ op' \in Seq(OpT) /\ DOMAIN op' = DOMAIN op
      /\ \A x \in DOMAIN op : x # o => op'[x] = op[x]
      /\ op'[o].src = op[o].src /\ op'[o].cancelled = op[o].cancelled /\ op'[o].stage = "late"
  BY <1>1, <1>2, StageFacts DEF Stages
<1>4. \A x \in DOMAIN op : op'[x].src = op[x].src /\ (Live(op', main', x) <=> Live(op, main, x))
  <2> SUFFICES ASSUME NEW x \in DOMAIN op
               PROVE  op'[x].src = op[x].src /\ (Live(op', main', x) <=> Live(op, main, x))
    OBVIOUS
  <2>1. CASE x = o
    <3>1. Live(op', main', o) <=> ~op[o].cancelled
      BY <1>3 DEF Live
    <3> QED BY <1>2, <1>3, <2>1, <3>1
  <2>2. CASE x # o
    <3>1. Live(op', main', x) <=> Live(op, main', x)
      BY <1>3, <2>2 DEF Live
    <3> QED BY <1>2, <1>3, <2>2, <3>1
  <2> QED BY <2>1, <2>2
<1>5. Posted(op', main')
  BY <1>2, <1>3 DEF Posted
<1> QED BY <1>1, <1>2, <1>3, <1>4, <1>5, NowGood, OpsInv

LEMMA EndBlockStep ==
    ASSUME IInv, EndBlock
    PROVE  IInv'
<1> DEFINE b == Head(main)
           o == b.op
           s == b.src
           m == Tail(main)
           w == [Now EXCEPT !.main = m]
<1>1. main # <<>> /\ b.kind \in Ending /\ file' = file /\ moved' = moved
  BY DEF EndBlock, Ending
<1>2. /\ m \in Seq(BlockT) /\ b \in BlockT
      /\ o \in DOMAIN op /\ op[o].src = s
      /\ Live(op, main, o) <=> ~op[o].cancelled
      /\ ~Live(op, m, o)
      /\ \A x \in DOMAIN op : x # o => (Live(op, m, x) <=> Live(op, main, x))
      /\ Posted(op, m) /\ Owns(view, waiting, m, moved)
  BY <1>1, EndedFacts
<1>3. s \in Srcs
  BY <1>2 DEF BlockT
<1>4. /\ w \in World /\ w.view = view /\ w.waiting = waiting /\ w.task = task /\ w.op = op
      /\ w.main = m
  BY <1>2, NowGood DEF World
<1>5. \A r \in Srcs : Fetched(waiting, task, op, main, r)
  BY NowGood DEF Good
<1>6. Becomes(IF op[o].cancelled THEN w ELSE IF b.kind = "loaded" THEN DidLoaded(w, s)
              ELSE Told(w, s, Nothing))
  <2>1. w = [Now EXCEPT !.main = Tail(@)] /\ Now.op = op
    BY NowGood
  <2>2. w.op = op
    BY <1>4
  <2> QED BY <2>1, <2>2 DEF EndBlock
<1> HIDE DEF b, o, s, m, w
<1>7. CASE op[o].cancelled
  <2>1. \A x \in DOMAIN op : Live(op, m, x) <=> Live(op, main, x)
    BY <1>2, <1>7
  <2>2. \A r \in Srcs : Fetched(waiting, task, op, m, r)
    BY <1>5, <2>1 DEF Fetched
  <2>3. Good(w, moved)
    BY <1>2, <1>4, <2>2 DEF Good
  <2> QED BY <1>1, <1>6, <1>7, <2>3, NowGood, BecomesInv
<1>8. CASE ~op[o].cancelled
  <2>1. waiting[s] # {} /\ task[s] = o
    BY <1>2, <1>3, <1>5, <1>8 DEF Fetched
  <2>2. Unfetched(op, m, s)
    BY <1>2, <1>3, <1>5, <2>1 DEF Fetched, Unfetched
  <2>3. ASSUME NEW r \in Srcs \ {s}
        PROVE  Fetched(waiting, task, op, m, r)
    BY <1>2, <1>5, <2>3 DEF Fetched
  <2>4. Good(DidLoaded(w, s), moved) /\ Good(Told(w, s, Nothing), moved)
    BY <1>2, <1>3, <1>4, <2>2, <2>3, DidLoadedGood, ToldGood
  <2> QED BY <1>1, <1>6, <1>8, <2>4, NowGood, BecomesInv
<1> QED BY <1>7, <1>8

LEMMA LateFailsStep ==
    ASSUME IInv, NEW o, LateFails(o)
    PROVE  IInv'
<1> DEFINE q == [op EXCEPT ![o].stage = "ended"]
           s == op[o].src
           w == [Now EXCEPT !.op[o].stage = "ended"]
<1>1. o \in DOMAIN op /\ op[o].stage = "late" /\ file' = file /\ moved' = moved
  BY DEF LateFails
<1>2. /\ q \in Seq(OpT) /\ DOMAIN q = DOMAIN op
      /\ \A x \in DOMAIN op : x # o => q[x] = op[x]
      /\ q[o].src = s /\ q[o].cancelled = op[o].cancelled /\ q[o].stage = "ended" /\ o # 0
  BY <1>1, StageFacts DEF Stages
<1>3. /\ w \in World /\ w.view = view /\ w.waiting = waiting /\ w.task = task /\ w.op = q
      /\ w.main = main
  BY <1>2, NowGood DEF World
<1>4. Becomes(IF op[o].cancelled THEN w ELSE Told(w, s, Nothing))
  BY DEF LateFails
<1>5. /\ Posted(op, main) /\ Owns(view, waiting, main, moved)
      /\ \A r \in Srcs : Fetched(waiting, task, op, main, r)
  BY NowGood DEF Good
<1>6. s \in Srcs
  <2>1. op \in Seq(OpT)
    BY NowGood
  <2>2. op[o] \in OpT
    BY <1>1, <2>1
  <2> QED BY <2>2 DEF OpT
<1> HIDE DEF q, s, w
<1>7. \A i \in DOMAIN main : main[i].op # o
  BY <1>1, <1>2, <1>5 DEF Posted
<1>8. Posted(q, main)
  BY <1>2, <1>5, <1>7 DEF Posted
<1>9. ~Live(q, main, o) /\ \A x \in DOMAIN op : x # o => (Live(q, main, x) <=> Live(op, main, x))
  BY <1>2, <1>7 DEF Live
<1>10. Live(op, main, o) <=> ~op[o].cancelled
  BY <1>1 DEF Live
<1>11. \A x \in DOMAIN op : q[x].src = op[x].src
  BY <1>2 DEF s
<1>12. CASE op[o].cancelled
  <2>1. \A x \in DOMAIN op : Live(q, main, x) <=> Live(op, main, x)
    BY <1>9, <1>10, <1>12
  <2>2. \A r \in Srcs : Fetched(waiting, task, q, main, r)
    BY <1>2, <1>5, <1>11, <2>1 DEF Fetched
  <2>3. Good(w, moved)
    BY <1>3, <1>5, <1>8, <2>2 DEF Good
  <2> QED BY <1>1, <1>4, <1>12, <2>3, NowGood, BecomesInv
<1>13. CASE ~op[o].cancelled
  <2>1. waiting[s] # {} /\ task[s] = o
    BY <1>1, <1>2, <1>5, <1>6, <1>10, <1>11, <1>13 DEF Fetched
  <2>2. Unfetched(q, main, s)
    BY <1>2, <1>5, <1>6, <1>9, <1>11, <2>1 DEF Fetched, Unfetched
  <2>3. ASSUME NEW r \in Srcs \ {s}
        PROVE  Fetched(waiting, task, q, main, r)
    <3>1. Fetched(waiting, task, op, main, r) /\ r # s
      BY <1>5, <2>3
    <3> QED BY <1>1, <1>2, <1>9, <1>11, <3>1 DEF Fetched
  <2>4. Good(Told(w, s, Nothing), moved)
    BY <1>3, <1>5, <1>6, <1>8, <2>2, <2>3, ToldGood
  <2> QED BY <1>1, <1>4, <1>13, <2>4, NowGood, BecomesInv
<1> QED BY <1>12, <1>13

-----------------------------------------------------------------------------
(* The theorems.                                                           *)

LEMMA InitInv == Init => IInv
<1> SUFFICES ASSUME Init PROVE IInv
  OBVIOUS
<1> DEFINE First == {[src |-> s, loading |-> FALSE, loaded |-> FALSE, pic |-> Nothing] : s \in Srcs}
<1>1. First \subseteq ViewT /\ \A r \in First : r.pic = Nothing
  <2>1. ASSUME NEW s \in Srcs
        PROVE  LET r == [src |-> s, loading |-> FALSE, loaded |-> FALSE, pic |-> Nothing]
               IN  r \in ViewT /\ r.pic = Nothing
    BY DEF ViewT
  <2>2. \A r \in First : \E s \in Srcs :
           r = [src |-> s, loading |-> FALSE, loaded |-> FALSE, pic |-> Nothing]
    BY Zenon
  <2> HIDE DEF First
  <2> QED BY <2>1, <2>2
<1>2. view \in [Views -> First]
  BY DEF Init
<1> HIDE DEF First
<1>3. view \in [Views -> ViewT] /\ \A v \in Views : view[v].pic = Nothing
  BY <1>1, <1>2
<1>4. /\ waiting \in [Srcs -> SUBSET Views] /\ task \in [Srcs -> Nat] /\ op = <<>> /\ main = <<>>
      /\ cached = {} /\ moved = {} /\ \A s \in Srcs : waiting[s] = {}
      /\ file \in [Srcs -> {"none", "image", "junk"}]
  BY DEF Init
<1>5. TypeOK
  BY <1>3, <1>4 DEF TypeOK
<1>6. Now \in World
  BY <1>5 DEF TypeOK, Now, World
<1>7. Owns(view, waiting, main, moved) /\ Posted(op, main)
  BY <1>3, <1>4 DEF Owns, Posted
<1>8. \A s \in Srcs : Fetched(waiting, task, op, main, s)
  BY <1>4 DEF Fetched
<1>9. Good(Now, moved)
  BY <1>6, <1>7, <1>8 DEF Good, Now
<1> QED BY <1>5, <1>9 DEF IInv

LEMMA NextInv == IInv /\ [Next]_vars => IInv'
<1> SUFFICES ASSUME IInv, [Next]_vars PROVE IInv'
  OBVIOUS
<1>1. ASSUME NEW v \in Views, NEW s \in Srcs, Rebind(v, s) \/ SetHeader(v, s)
      PROVE  IInv'
  BY <1>1, RebindStep, SetHeaderStep
<1>2. ASSUME NEW v \in Views, PageLoads(v) \/ PageDownloads(v) \/ PageCancels(v)
      PROVE  IInv'
  BY <1>2, PageStep
<1>3. CASE CloseScreen \/ MemoryWarning
  BY <1>3, CloseScreenStep, MemoryWarningStep
<1>4. CASE MainBlock
  BY <1>4, DownloadBlockStep, ReadBlockStep, TimeoutBlockStep, EndBlockStep DEF MainBlock
<1>5. ASSUME NEW o, OpStep(o)
      PROVE  IInv'
  BY <1>5, LandsStep, EndingStep, LateFailsStep DEF OpStep
<1>6. CASE UNCHANGED vars
  BY <1>6 DEF vars, IInv, TypeOK, Good, Now
<1> QED BY <1>1, <1>2, <1>3, <1>4, <1>5, <1>6 DEF Next, Gesture

\* The state is well formed, views wait for their own address, and each list that is
\* not empty has one download.
THEOREM Inv == Spec => []IInv
<1>1. Init => IInv
  BY InitInv
<1>2. IInv /\ [Next]_vars => IInv'
  BY NextInv
<1> QED BY <1>1, <1>2, PTL DEF Spec

\* No view that was at rest when it was given its address shows another picture.
THEOREM OwnImageAlways == Spec => []OwnImage
<1>1. IInv => OwnImage
  BY NowGood DEF Good, Owns, OwnImage
<1> QED BY <1>1, Inv, PTL

\* Views wait under an address exactly as long as its one download is under way.
THEOREM WaitersHaveDownloadAlways == Spec => []WaitersHaveDownload
<1>1. IInv => WaitersHaveDownload
  <2> SUFFICES ASSUME IInv, NEW s \in Srcs
               PROVE  {o \in DOMAIN op : op[o].src = s /\ Pending(o)}
                          = IF waiting[s] = {} THEN {} ELSE {task[s]}
    BY DEF WaitersHaveDownload
  <2>1. Fetched(waiting, task, op, main, s)
    BY NowGood DEF Good
  <2>2. \A o \in DOMAIN op : Pending(o) <=> Live(op, main, o)
    BY DEF Pending, Live
  <2> QED BY <2>1, <2>2 DEF Fetched
<1> QED BY <1>1, Inv, PTL
==============================================================================
