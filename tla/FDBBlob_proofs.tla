--------------------------- MODULE FDBBlob_proofs ---------------------------
(***************************************************************************)
(* Proofs that FDBBlobRead gives what FDBBlobCreate stored, for any bytes, *)
(* buffer and tag, whatever writes and reads fail.                         *)
(***************************************************************************)
EXTENDS FDBBlob, SequenceTheorems, TLAPS

-----------------------------------------------------------------------------
(* The invariant.  f is the file, bl the blobs stored, tn the places torn. *)

\* Record d lies in f at place v.
Holds(f, v, d) ==
    /\ v + HeadLen + Len(d) <= Len(f)
    /\ LengthAt(f, v) = Len(d)
    /\ \A i \in 1..Len(d) : f[v + HeadLen + i] = d[i]

Behind(bl, v) == v + HeadLen + Len(bl[v])

\* Every blob is in the file; the next one, a torn one or the end of the file
\* follows, and no two overlap.
FileInv(f, bl, tn) ==
    \A v \in DOMAIN bl :
        /\ v > 0 /\ Holds(f, v, bl[v])
        /\ Behind(bl, v) \in DOMAIN bl \cup tn \cup {Len(f)}
        /\ \A u \in DOMAIN bl : v < u => Behind(bl, v) <= u

Last(w) == w.location + Len(w.bytes)
Clean(tn, p, q) == \A t \in tn : t \notin p..q

\* A buffer that has something is a part of the file, ends where a record does
\* and cuts none in two, torn ones excepted.
WinInv(f, bl, tn, w) ==
    w.bytes # <<>> =>
        /\ Last(w) <= Len(f)
        /\ \A i \in 1..Len(w.bytes) : w.bytes[i] = f[w.location + i]
        /\ Clean(tn, w.location, Last(w) - 1) => Last(w) \in DOMAIN bl \cup tn \cup {Len(f)}
        /\ \A v \in DOMAIN bl :
              InBuffer(w, v) /\ Clean(tn, w.location, v) => Behind(bl, v) <= Last(w)

\* A read under way fills the buffer from the place of a blob.
AskInv == asked # 0 => asked \in DOMAIN blobs /\ win.location = asked /\ out = NoAnswer

\* What an answer says is what was stored.
Given(o, w, bl, tn) ==
    o.kind \notin {"none", "fail"}
        => /\ o.place \in DOMAIN bl
           /\ Clean(tn, w.location, o.place) => o = Answer("blob", o.place, bl[o.place])

IInv ==
    /\ TypeOK
    /\ FileInv(file, blobs, torn)
    /\ WinInv(file, blobs, torn, win)
    /\ AskInv
    /\ Given(out, win, blobs, torn)

-----------------------------------------------------------------------------
(* Bytes.                                                                  *)

LEMMA Types ==
    ASSUME TypeOK
    PROVE  /\ file \in Seq(Byte) /\ Len(file) \in Nat
           /\ \A v \in DOMAIN blobs : v \in Nat /\ blobs[v] \in Seq(Byte) /\ Len(blobs[v]) \in Nat
           /\ \A t \in torn : t \in Nat
           /\ win.location \in Nat /\ win.bytes \in Seq(Byte) /\ win.size \in Nat
           /\ Len(win.bytes) \in Nat
           /\ win = [location |-> win.location, bytes |-> win.bytes, size |-> win.size]
           /\ asked \in Nat
           /\ out \in [kind : {"none", "blob", "junk", "null", "fail"}, place : Nat,
                       data : Seq(Byte)]
<1>1. win \in [location : Nat, bytes : Seq(Byte), size : Nat]
  BY DEF TypeOK
<1>2. /\ win.location \in Nat /\ win.bytes \in Seq(Byte) /\ win.size \in Nat
      /\ win = [location |-> win.location, bytes |-> win.bytes, size |-> win.size]
  BY <1>1
<1> QED BY <1>2 DEF TypeOK

LEMMA DataType ==
    ASSUME NEW d \in Datas
    PROVE  d \in Seq(Byte) /\ Len(d) \in Nat /\ Len(d) <= MaxData
<1>1. PICK n \in 0..MaxData : d \in [1..n -> Byte]
  BY DEF Datas
<1>2. n \in Nat
  BY <1>1, FDBBlobAssumption
<1>3. d \in Seq(Byte) /\ Len(d) = n
  BY <1>1, <1>2
<1> QED BY <1>1, <1>2, <1>3, FDBBlobAssumption

LEMMA Concat ==
    ASSUME NEW S, NEW s \in Seq(S), NEW t \in Seq(S)
    PROVE  /\ s \o t \in Seq(S) /\ Len(s \o t) = Len(s) + Len(t)
           /\ \A i \in 1..Len(s) : (s \o t)[i] = s[i]
           /\ \A i \in 1..Len(t) : (s \o t)[Len(s) + i] = t[i]
<1>1. /\ s \o t \in Seq(S) /\ Len(s \o t) = Len(s) + Len(t)
      /\ \A i \in 1..(Len(s) + Len(t)) :
            (s \o t)[i] = IF i <= Len(s) THEN s[i] ELSE t[i - Len(s)]
  BY ConcatProperties
<1>2. Len(s) \in Nat /\ Len(t) \in Nat
  OBVIOUS
<1>3. ASSUME NEW i \in 1..Len(t) PROVE (s \o t)[Len(s) + i] = t[i]
  <2>1. /\ Len(s) + i \in 1..(Len(s) + Len(t)) /\ ~(Len(s) + i <= Len(s))
        /\ (Len(s) + i) - Len(s) = i
    BY <1>2
  <2> QED BY <1>1, <2>1
<1> QED BY <1>1, <1>2, <1>3

LEMMA ConcatIs ==
    ASSUME NEW S, NEW s \in Seq(S), NEW t \in Seq(S), NEW u, u = s \o t
    PROVE  /\ u \in Seq(S) /\ Len(u) = Len(s) + Len(t)
           /\ \A i \in 1..Len(s) : u[i] = s[i]
           /\ \A i \in 1..Len(t) : u[Len(s) + i] = t[i]
<1> QED BY Concat

LEMMA ConcatBehind ==
    ASSUME NEW S, NEW s \in Seq(S), NEW t \in Seq(S), NEW u, u = s \o t,
           NEW m, m = Len(s), NEW i \in 1..Len(t), NEW j, j = m + i
    PROVE  u[j] = t[i]
<1> QED BY Concat

LEMMA ConcatLength ==
    ASSUME NEW S, NEW s \in Seq(S), NEW t \in Seq(S), NEW u, u = s \o t,
           NEW m, m = Len(s), NEW n, n = Len(t)
    PROVE  Len(u) = m + n
<1> QED BY Concat

\* A length survives its two bytes.
LEMMA HeaderFacts ==
    ASSUME NEW n \in Nat, n <= MaxData
    PROVE  /\ Header(n) \in Seq(Byte) /\ Len(Header(n)) = HeadLen
           /\ Header(n)[1] + Base * Header(n)[2] = n
<1> DEFINE a == n % Base
           b == n \div Base
<1>1. Base \in Nat /\ Base > 1 /\ n < Base * Base
  BY FDBBlobAssumption
<1>2. a \in 0..(Base - 1) /\ b \in Nat /\ n = Base * b + a
  BY <1>1
<1> HIDE DEF a, b
<1>3. b < Base
  <2> SUFFICES ASSUME b >= Base PROVE FALSE
    BY <1>1, <1>2
  <2>1. Base * b >= Base * Base
    BY <1>1, <1>2
  <2> QED BY <1>1, <1>2, <2>1
<1>4. Header(n) = <<a, b>>
  BY DEF Header, a, b
<1>5. a \in Byte /\ b \in Byte
  BY <1>1, <1>2, <1>3 DEF Byte
<1>6. <<a, b>> \in Seq(Byte) /\ Len(<<a, b>>) = 2 /\ <<a, b>>[1] = a /\ <<a, b>>[2] = b
  BY <1>5
<1>7. a + Base * b = n
  BY <1>1, <1>2
<1> QED BY <1>4, <1>6, <1>7 DEF HeadLen

LEMMA RecordFacts ==
    ASSUME NEW d \in Datas
    PROVE  /\ Record(d) \in Seq(Byte) /\ Len(Record(d)) = HeadLen + Len(d)
           /\ LengthAt(Record(d), 0) = Len(d)
           /\ \A i \in 1..Len(d) : Record(d)[HeadLen + i] = d[i]
<1> DEFINE h == Header(Len(d))
<1>1. d \in Seq(Byte) /\ Len(d) \in Nat /\ Len(d) <= MaxData
  BY DataType
<1>2. h \in Seq(Byte) /\ Len(h) = 2 /\ h[1] + Base * h[2] = Len(d)
  BY <1>1, HeaderFacts DEF HeadLen
<1> HIDE DEF h
<1>3. /\ h \o d \in Seq(Byte) /\ Len(h \o d) = 2 + Len(d)
      /\ (h \o d)[1] = h[1] /\ (h \o d)[2] = h[2]
      /\ \A i \in 1..Len(d) : (h \o d)[2 + i] = d[i]
  BY <1>1, <1>2, Concat
<1>4. Record(d) = h \o d
  BY DEF Record, h
<1>5. LengthAt(Record(d), 0) = Len(d)
  <2>1. 0 + 1 = 1 /\ 0 + 2 = 2
    OBVIOUS
  <2> QED BY <1>2, <1>3, <1>4, <2>1 DEF LengthAt
<1> QED BY <1>3, <1>4, <1>5 DEF HeadLen

LEMMA TagFacts ==
    ASSUME TypeOK
    PROVE  /\ Tag \in Seq(Byte) /\ Len(Tag) \in Nat /\ Place = Len(file) + Len(Tag)
           /\ Place \in Nat \ {0} /\ Place >= Len(file)
           /\ file # <<>> => Len(Tag) = 0 /\ Place = Len(file)
<1> DEFINE n == IF file = <<>> THEN TagLen ELSE 0
<1>1. file \in Seq(Byte) /\ Len(file) \in Nat
  BY Types
<1>2. TagLen \in Nat \ {0} /\ n \in Nat /\ 0 \in Byte
  BY FDBBlobAssumption DEF Byte
<1>3. Tag = [i \in 1..n |-> 0]
  BY DEF Tag
<1>4. (file = <<>> => n > 0) /\ (file # <<>> => n = 0 /\ Len(file) > 0)
  BY <1>1, <1>2
<1> HIDE DEF n
<1>5. Tag \in Seq(Byte) /\ Len(Tag) = n
  BY <1>2, <1>3
<1> QED BY <1>1, <1>2, <1>4, <1>5 DEF Place

\* The file grows by a tag and a record.
LEMMA Grown ==
    ASSUME TypeOK, NEW d \in Datas
    PROVE  LET g == file \o Tag \o Record(d)
           IN  /\ g \in Seq(Byte) /\ Len(g) = Place + HeadLen + Len(d)
               /\ \A i \in 1..Len(file) : g[i] = file[i]
               /\ Holds(g, Place, d)
<1> DEFINE t == file \o Tag
           r == Record(d)
           g == t \o r
<1>1. file \in Seq(Byte) /\ Len(file) \in Nat
  BY Types
<1>2. Tag \in Seq(Byte) /\ Len(Tag) \in Nat /\ Place = Len(file) + Len(Tag) /\ Place \in Nat
  BY TagFacts
<1>3. /\ r \in Seq(Byte) /\ Len(r) = 2 + Len(d) /\ r[0 + 1] + Base * r[0 + 2] = Len(d)
      /\ \A i \in 1..Len(d) : r[2 + i] = d[i]
  BY RecordFacts DEF HeadLen, LengthAt
<1>4. Len(d) \in Nat
  BY DataType
<1> HIDE DEF r
<1>5. /\ t \in Seq(Byte) /\ Len(t) = Place
      /\ \A i \in 1..Len(file) : t[i] = file[i]
  BY <1>1, <1>2
<1> HIDE DEF t
<1>6. /\ g \in Seq(Byte) /\ Len(g) = Place + (2 + Len(d))
      /\ \A i \in 1..Place : g[i] = t[i]
      /\ \A i \in 1..(2 + Len(d)) : g[Place + i] = r[i]
  <2>1. t \in Seq(Byte) /\ r \in Seq(Byte) /\ Len(t) \in Nat /\ Len(r) \in Nat
    BY <1>3, <1>5
  <2>2. g = t \o r
    OBVIOUS
  <2> HIDE DEF g
  <2>3. g \in Seq(Byte) /\ \A i \in 1..Len(t) : g[i] = t[i]
    BY <2>1, <2>2, ConcatIs
  <2>4. Len(g) = Len(t) + Len(r)
    BY <2>1, <2>2, ConcatLength
  <2>5. ASSUME NEW i \in 1..Len(r) PROVE g[Len(t) + i] = r[i]
    BY <2>1, <2>2, ConcatBehind
  <2>6. Len(t) = Place /\ Len(r) = 2 + Len(d)
    BY <1>3, <1>5
  <2> QED BY <2>3, <2>4, <2>5, <2>6
<1> HIDE DEF g
<1>7. \A i \in 1..Len(file) : g[i] = file[i]
  BY <1>1, <1>2, <1>5, <1>6
<1>8. g[Place + 1] + Base * g[Place + 2] = Len(d)
  <2>1. g[Place + 1] = r[1] /\ g[Place + 2] = r[2] /\ 0 + 1 = 1 /\ 0 + 2 = 2
    BY <1>4, <1>6
  <2> QED BY <1>3, <2>1
<1>9. \A i \in 1..Len(d) : g[Place + 2 + i] = d[i]
  <2>1. ASSUME NEW i \in 1..Len(d) PROVE g[Place + 2 + i] = d[i]
    <3>1. 2 + i \in 1..(2 + Len(d)) /\ Place + (2 + i) = Place + 2 + i
      BY <1>2, <1>4
    <3>2. g[Place + (2 + i)] = r[2 + i]
      BY <1>6, <3>1
    <3> QED BY <1>3, <3>1, <3>2
  <2> QED BY <2>1
<1>10. Len(g) = Place + 2 + Len(d)
  BY <1>2, <1>4, <1>6
<1>11. Holds(g, Place, d)
  BY <1>2, <1>4, <1>8, <1>9, <1>10 DEF Holds, HeadLen, LengthAt
<1>12. g \in Seq(Byte)
  BY <1>6
<1> QED BY <1>7, <1>10, <1>11, <1>12 DEF g, t, r, HeadLen

-----------------------------------------------------------------------------
(* What a file that grows keeps.                                           *)

Extends(f, g) == Len(f) <= Len(g) /\ \A i \in 1..Len(f) : g[i] = f[i]

LEMMA HoldsStill ==
    ASSUME NEW f \in Seq(Byte), NEW g \in Seq(Byte), Extends(f, g),
           NEW v \in Nat, NEW d \in Seq(Byte), Holds(f, v, d)
    PROVE  Holds(g, v, d)
<1>1. Len(f) \in Nat /\ Len(g) \in Nat /\ Len(d) \in Nat
  OBVIOUS
<1>2. /\ v + 2 + Len(d) <= Len(f) /\ f[v + 1] + Base * f[v + 2] = Len(d)
      /\ \A i \in 1..Len(d) : f[v + 2 + i] = d[i]
  BY DEF Holds, HeadLen, LengthAt
<1>3. Len(f) <= Len(g) /\ \A i \in 1..Len(f) : g[i] = f[i]
  BY DEF Extends
<1>4. g[v + 1] = f[v + 1] /\ g[v + 2] = f[v + 2]
  BY <1>1, <1>2, <1>3
<1>5. \A i \in 1..Len(d) : g[v + 2 + i] = d[i]
  <2>1. \A i \in 1..Len(d) : v + 2 + i \in 1..Len(f)
    BY <1>1, <1>2
  <2> QED BY <1>2, <1>3, <2>1
<1>6. v + 2 + Len(d) <= Len(g)
  BY <1>1, <1>2, <1>3
<1> QED BY <1>2, <1>4, <1>5, <1>6 DEF Holds, HeadLen, LengthAt

\* A buffer keeps to a file that grows behind a record, a torn one or nothing.
LEMMA WinStill ==
    ASSUME IInv, NEW g \in Seq(Byte), Extends(file, g), NEW bl, NEW tn,
           DOMAIN blobs \subseteq DOMAIN bl, DOMAIN bl \subseteq Nat, torn \subseteq tn,
           \A v \in DOMAIN blobs : bl[v] = blobs[v],
           \A v \in DOMAIN bl : v \in DOMAIN blobs \/ v >= Len(file),
           \A v \in tn : v \in torn \/ v >= Len(file),
           file # <<>> => Len(file) \in DOMAIN bl \cup tn \cup {Len(g)}
    PROVE  WinInv(g, bl, tn, win)
<1>1. TypeOK /\ WinInv(file, blobs, torn, win)
  BY DEF IInv
<1>2. /\ file \in Seq(Byte) /\ Len(file) \in Nat /\ Len(g) \in Nat
      /\ win.location \in Nat /\ win.bytes \in Seq(Byte) /\ Len(win.bytes) \in Nat
  BY <1>1, Types
<1>3. Len(file) <= Len(g) /\ \A i \in 1..Len(file) : g[i] = file[i]
  BY DEF Extends
<1> SUFFICES ASSUME win.bytes # <<>>
             PROVE  /\ Last(win) <= Len(g)
                    /\ \A i \in 1..Len(win.bytes) : win.bytes[i] = g[win.location + i]
                    /\ Clean(tn, win.location, Last(win) - 1)
                          => Last(win) \in DOMAIN bl \cup tn \cup {Len(g)}
                    /\ \A v \in DOMAIN bl :
                          InBuffer(win, v) /\ Clean(tn, win.location, v)
                             => Behind(bl, v) <= Last(win)
  BY DEF WinInv
<1>4. /\ Last(win) <= Len(file)
      /\ \A i \in 1..Len(win.bytes) : win.bytes[i] = file[win.location + i]
      /\ Clean(torn, win.location, Last(win) - 1)
            => Last(win) \in DOMAIN blobs \cup torn \cup {Len(file)}
      /\ \A v \in DOMAIN blobs :
            InBuffer(win, v) /\ Clean(torn, win.location, v) => Behind(blobs, v) <= Last(win)
  BY <1>1 DEF WinInv
<1>5. Last(win) = win.location + Len(win.bytes) /\ Last(win) \in Nat /\ Len(win.bytes) > 0
  BY <1>2 DEF Last
<1>6. file # <<>>
  BY <1>2, <1>4, <1>5
<1>7. \A p, q : Clean(tn, p, q) => Clean(torn, p, q)
  BY DEF Clean
<1>8. Last(win) <= Len(g)
  BY <1>2, <1>3, <1>4, <1>5
<1>9. \A i \in 1..Len(win.bytes) : win.bytes[i] = g[win.location + i]
  <2>1. \A i \in 1..Len(win.bytes) : win.location + i \in 1..Len(file)
    BY <1>2, <1>4, <1>5
  <2> QED BY <1>3, <1>4, <2>1
<1>10. Clean(tn, win.location, Last(win) - 1) => Last(win) \in DOMAIN bl \cup tn \cup {Len(g)}
  BY <1>4, <1>6, <1>7
<1>11. ASSUME NEW v \in DOMAIN bl, InBuffer(win, v), Clean(tn, win.location, v)
       PROVE  Behind(bl, v) <= Last(win)
  <2>1. v < Last(win)
    BY <1>11 DEF InBuffer, Last
  <2>2. v \in DOMAIN blobs
    <3> SUFFICES ASSUME v >= Len(file) PROVE FALSE
      OBVIOUS
    <3>1. InBuffer(win, v) /\ v >= win.location
      BY <1>11 DEF InBuffer
    <3>2. v \in Nat
      BY <1>11
    <3> QED BY <1>2, <1>4, <1>5, <2>1, <3>2
  <2>3. Behind(blobs, v) <= Last(win)
    BY <1>4, <1>7, <1>11, <2>2
  <2> QED BY <2>2, <2>3 DEF Behind
<1> QED BY <1>8, <1>9, <1>10, <1>11

\* So does an answer.
LEMMA GivenStill ==
    ASSUME IInv, NEW bl, NEW tn, DOMAIN blobs \subseteq DOMAIN bl, torn \subseteq tn,
           \A v \in DOMAIN blobs : bl[v] = blobs[v]
    PROVE  Given(out, win, bl, tn)
<1>1. Given(out, win, blobs, torn)
  BY DEF IInv
<1>2. \A p, q : Clean(tn, p, q) => Clean(torn, p, q)
  BY DEF Clean
<1> QED BY <1>1, <1>2 DEF Given

-----------------------------------------------------------------------------
(* FDBBlobCreate.                                                          *)

LEMMA CreateStep == ASSUME IInv, NEW d \in Datas, Create(d) PROVE IInv'
<1> DEFINE P == Place
           g == file \o Tag \o Record(d)
           bl == [v \in DOMAIN blobs \cup {P} |-> IF v = P THEN d ELSE blobs[v]]
<1>1. TypeOK /\ FileInv(file, blobs, torn) /\ AskInv
  BY DEF IInv
<1>2. /\ file \in Seq(Byte) /\ Len(file) \in Nat
      /\ \A v \in DOMAIN blobs : v \in Nat /\ blobs[v] \in Seq(Byte) /\ Len(blobs[v]) \in Nat
  BY <1>1, Types
<1>3. P \in Nat \ {0} /\ P >= Len(file) /\ (file # <<>> => P = Len(file))
  BY <1>1, TagFacts
<1>4. d \in Seq(Byte) /\ Len(d) \in Nat
  BY DataType
<1>5. /\ g \in Seq(Byte) /\ Len(g) = P + HeadLen + Len(d)
      /\ \A i \in 1..Len(file) : g[i] = file[i]
      /\ Holds(g, P, d)
  BY <1>1, Grown
<1>6. file' = g /\ blobs' = bl /\ UNCHANGED <<torn, win, asked, out>> /\ asked = 0
  BY DEF Create, Unlocked
<1> HIDE DEF g, P
<1>7. Extends(file, g)
  BY <1>2, <1>3, <1>4, <1>5 DEF Extends, HeadLen
<1>8. /\ DOMAIN bl = DOMAIN blobs \cup {P} /\ bl[P] = d
      /\ \A v \in DOMAIN blobs : v # P => bl[v] = blobs[v]
  OBVIOUS
<1> HIDE DEF bl
<1>9. \A v \in DOMAIN blobs : /\ v > 0 /\ Holds(file, v, blobs[v])
                              /\ Behind(blobs, v) \in DOMAIN blobs \cup torn \cup {Len(file)}
                              /\ \A u \in DOMAIN blobs : v < u => Behind(blobs, v) <= u
  BY <1>1 DEF FileInv
<1>10. \A v \in DOMAIN blobs : Behind(blobs, v) <= Len(file) /\ v < P
  BY <1>2, <1>3, <1>9 DEF Holds, Behind, HeadLen
<1>11. P \notin DOMAIN blobs
  BY <1>3, <1>10
<1>12. \A v \in DOMAIN blobs : bl[v] = blobs[v] /\ Behind(bl, v) = Behind(blobs, v)
  BY <1>8, <1>11 DEF Behind
<1>13. Behind(bl, P) = Len(g)
  BY <1>5, <1>8 DEF Behind
<1>14. ASSUME NEW v \in DOMAIN bl
       PROVE  /\ v > 0 /\ Holds(g, v, bl[v])
              /\ Behind(bl, v) \in DOMAIN bl \cup torn \cup {Len(g)}
              /\ \A u \in DOMAIN bl : v < u => Behind(bl, v) <= u
  <2>1. CASE v = P
    <3>1. \A u \in DOMAIN bl : ~(v < u)
      BY <1>2, <1>3, <1>8, <1>10, <2>1
    <3> QED BY <1>3, <1>5, <1>8, <1>13, <2>1, <3>1
  <2>2. CASE v \in DOMAIN blobs
    <3>1. Holds(g, v, blobs[v])
      BY <1>2, <1>5, <1>7, <1>9, <2>2, HoldsStill
    <3>2. Behind(blobs, v) <= P
      <4>1. Behind(blobs, v) \in Nat
        BY <1>2, <2>2 DEF Behind, HeadLen
      <4> QED BY <1>2, <1>3, <1>10, <2>2, <4>1
    <3>3. Behind(blobs, v) \in DOMAIN bl \cup torn \cup {Len(g)}
      <4>1. file # <<>>
        <5>1. Len(file) # 0
          BY <1>2, <1>9, <2>2 DEF Holds, HeadLen
        <5> QED BY <5>1
      <4> QED BY <1>3, <1>8, <1>9, <2>2, <4>1
    <3>4. \A u \in DOMAIN bl : v < u => Behind(blobs, v) <= u
      BY <1>8, <1>9, <2>2, <3>2
    <3> QED BY <1>9, <1>12, <2>2, <3>1, <3>3, <3>4
  <2> QED BY <1>8, <2>1, <2>2
<1>15. FileInv(g, bl, torn)
  BY <1>14 DEF FileInv
<1>16. WinInv(g, bl, torn, win)
  <2>1. \A v \in DOMAIN bl : v \in DOMAIN blobs \/ v >= Len(file)
    BY <1>3, <1>8
  <2>2. file # <<>> => Len(file) \in DOMAIN bl \cup torn \cup {Len(g)}
    BY <1>3, <1>8
  <2>3. DOMAIN bl \subseteq Nat
    BY <1>2, <1>3, <1>8
  <2> QED BY <1>5, <1>7, <1>8, <1>12, <2>1, <2>2, <2>3, WinStill
<1>17. Given(out, win, bl, torn)
  BY <1>8, <1>12, GivenStill
<1>18. TypeOK'
  <2>1. DOMAIN bl \subseteq Nat /\ \A v \in DOMAIN bl : bl[v] \in Seq(Byte)
    BY <1>2, <1>3, <1>4, <1>8, <1>12
  <2> QED BY <1>1, <1>5, <1>6, <2>1 DEF TypeOK
<1>19. AskInv'
  BY <1>6 DEF AskInv
<1> QED BY <1>6, <1>15, <1>16, <1>17, <1>18, <1>19 DEF IInv

LEMMA CreateFailsStep == ASSUME IInv, NEW d \in Datas, CreateFails(d) PROVE IInv'
<1> DEFINE all == Tag \o Record(d)
<1>1. TypeOK /\ FileInv(file, blobs, torn) /\ AskInv
  BY DEF IInv
<1>2. /\ file \in Seq(Byte) /\ Len(file) \in Nat
      /\ \A v \in DOMAIN blobs : v \in Nat /\ blobs[v] \in Seq(Byte) /\ Len(blobs[v]) \in Nat
  BY <1>1, Types
<1>3. /\ Place \in Nat \ {0} /\ Place >= Len(file) /\ Tag \in Seq(Byte) /\ Len(Tag) \in Nat
      /\ file # <<>> => Len(Tag) = 0 /\ Place = Len(file)
  BY <1>1, TagFacts
<1>4. all \in Seq(Byte) /\ Len(all) \in Nat
  BY <1>3, RecordFacts
<1>5. PICK k \in 0..(Len(all) - 1) :
         /\ file' = file \o Slice(all, 0, k)
         /\ torn' = IF k > Len(Tag) THEN torn \cup {Place} ELSE torn
  BY DEF CreateFails
<1>6. UNCHANGED <<blobs, win, asked, out>> /\ asked = 0
  BY DEF CreateFails, Unlocked
<1> DEFINE part == Slice(all, 0, k)
<1> HIDE DEF all
<1>7. part \in Seq(Byte) /\ Len(part) = k /\ k \in Nat
  <2>1. k \in Nat /\ k <= Len(all)
    BY <1>4, <1>5
  <2>2. part = [i \in 1..k |-> all[0 + i]]
    BY DEF Slice
  <2>3. \A i \in 1..k : all[0 + i] \in Byte
    BY <1>4, <2>1
  <2> HIDE DEF part
  <2> QED BY <2>1, <2>2, <2>3
<1> HIDE DEF part
<1>8. /\ file' \in Seq(Byte) /\ Len(file') = Len(file) + k
      /\ \A i \in 1..Len(file) : file'[i] = file[i]
  <2>1. file' = file \o part
    BY <1>5 DEF part
  <2> QED BY <1>2, <1>7, <2>1, Concat
<1>9. Extends(file, file')
  BY <1>2, <1>7, <1>8 DEF Extends
<1>10. file # <<>> => Len(file) \in torn' \cup {Len(file')}
  <2> SUFFICES ASSUME file # <<>> PROVE Len(file) \in torn' \cup {Len(file')}
    OBVIOUS
  <2>1. CASE k = 0
    BY <1>2, <1>8, <2>1
  <2>2. CASE k # 0
    <3>1. k > Len(Tag)
      BY <1>3, <1>7, <2>2
    <3> QED BY <1>3, <1>5, <3>1
  <2> QED BY <2>1, <2>2
<1>11. torn \subseteq torn' /\ \A t \in torn' : t \in torn \/ t >= Len(file)
  BY <1>3, <1>5
<1>12. ASSUME NEW v \in DOMAIN blobs
       PROVE  /\ v > 0 /\ Holds(file', v, blobs[v])
              /\ Behind(blobs, v) \in DOMAIN blobs \cup torn' \cup {Len(file')}
              /\ \A u \in DOMAIN blobs : v < u => Behind(blobs, v) <= u
  <2>1. /\ v > 0 /\ Holds(file, v, blobs[v])
        /\ Behind(blobs, v) \in DOMAIN blobs \cup torn \cup {Len(file)}
        /\ \A u \in DOMAIN blobs : v < u => Behind(blobs, v) <= u
    BY <1>1 DEF FileInv
  <2>2. Holds(file', v, blobs[v])
    BY <1>2, <1>8, <1>9, <2>1, HoldsStill
  <2>3. file # <<>>
    <3>1. Len(file) # 0
      BY <1>2, <2>1 DEF Holds, HeadLen
    <3> QED BY <3>1
  <2> QED BY <1>10, <1>11, <2>1, <2>2, <2>3
<1>13. FileInv(file', blobs, torn')
  BY <1>12 DEF FileInv
<1>14. WinInv(file', blobs, torn', win)
  BY <1>2, <1>8, <1>9, <1>10, <1>11, WinStill
<1>15. Given(out, win, blobs, torn')
  BY <1>11, GivenStill
<1>16. TypeOK'
  <2>1. torn' \subseteq Nat
    BY <1>1, <1>3, <1>5 DEF TypeOK
  <2> QED BY <1>1, <1>6, <1>8, <2>1 DEF TypeOK
<1>17. AskInv'
  BY <1>6 DEF AskInv
<1> QED BY <1>6, <1>13, <1>14, <1>15, <1>16, <1>17 DEF IInv

-----------------------------------------------------------------------------
(* FDBBlobRead.                                                            *)

LEMMA SliceFacts ==
    ASSUME NEW s \in Seq(Byte), NEW p \in Nat, NEW n \in Nat, p + n <= Len(s)
    PROVE  /\ Slice(s, p, n) \in Seq(Byte) /\ Len(Slice(s, p, n)) = n
           /\ \A i \in 1..n : Slice(s, p, n)[i] = s[p + i]
<1>1. Slice(s, p, n) = [i \in 1..n |-> s[p + i]]
  BY DEF Slice
<1>2. \A i \in 1..n : s[p + i] \in Byte
  <2>1. \A i \in 1..n : p + i \in 1..Len(s)
    OBVIOUS
  <2> QED BY <2>1
<1> QED BY <1>1, <1>2

LEMMA LengthIsNat ==
    ASSUME NEW s \in Seq(Byte), NEW p \in Nat, p + HeadLen <= Len(s)
    PROVE  LengthAt(s, p) \in Nat
<1>1. p + 1 \in 1..Len(s) /\ p + 2 \in 1..Len(s)
  BY DEF HeadLen
<1>2. s[p + 1] \in Byte /\ s[p + 2] \in Byte
  BY <1>1
<1>3. s[p + 1] \in Nat /\ s[p + 2] \in Nat /\ Base \in Nat
  BY <1>2, FDBBlobAssumption DEF Byte
<1>4. \A a, b \in Nat : a * b \in Nat
  OBVIOUS
<1>5. Base * s[p + 2] \in Nat
  BY <1>3, <1>4
<1> QED BY <1>3, <1>5 DEF LengthAt

\* What is taken out of the buffer is an answer.
LEMMA TakenType ==
    ASSUME NEW w, w.location \in Nat, w.bytes \in Seq(Byte), NEW v \in Nat, InBuffer(w, v)
    PROVE  Taken(w, v) \in [kind : {"none", "blob", "junk", "null", "fail"}, place : Nat,
                            data : Seq(Byte)]
<1> DEFINE p == v - w.location
<1>1. p \in Nat
  BY DEF InBuffer
<1> HIDE DEF p
<1>2. CASE /\ p + HeadLen <= Len(w.bytes)
           /\ p + HeadLen + LengthAt(w.bytes, p) <= Len(w.bytes)
  <2>1. LengthAt(w.bytes, p) \in Nat
    BY <1>1, <1>2, LengthIsNat
  <2>2. p + HeadLen \in Nat
    BY <1>1 DEF HeadLen
  <2>3. Slice(w.bytes, p + HeadLen, LengthAt(w.bytes, p)) \in Seq(Byte)
    BY <1>2, <2>1, <2>2, SliceFacts
  <2>4. Taken(w, v) = Answer("blob", v, Slice(w.bytes, p + HeadLen, LengthAt(w.bytes, p)))
    BY <1>2 DEF Taken, p
  <2> QED BY <2>3, <2>4 DEF Answer
<1>3. CASE ~(/\ p + HeadLen <= Len(w.bytes)
             /\ p + HeadLen + LengthAt(w.bytes, p) <= Len(w.bytes))
  <2>1. Taken(w, v) = Answer("junk", v, <<>>)
    BY <1>3 DEF Taken, p
  <2> QED BY <2>1 DEF Answer
<1> QED BY <1>2, <1>3

\* A blob whose place the buffer has, no torn record in front, is there whole.
LEMMA TakenWhole ==
    ASSUME IInv, NEW v \in DOMAIN blobs, InBuffer(win, v), Clean(torn, win.location, v)
    PROVE  Taken(win, v) = Answer("blob", v, blobs[v])
<1> DEFINE d == blobs[v]
           w == win.bytes
           p == v - win.location
<1>1. /\ file \in Seq(Byte) /\ Len(file) \in Nat /\ v \in Nat /\ d \in Seq(Byte) /\ Len(d) \in Nat
      /\ win.location \in Nat /\ w \in Seq(Byte) /\ Len(w) \in Nat
  BY Types DEF IInv
<1>2. p \in Nat /\ win.location + p = v /\ p < Len(w)
  BY <1>1 DEF InBuffer
<1>3. w # <<>>
  BY <1>1, <1>2
<1>4. /\ \A i \in 1..Len(w) : w[i] = file[win.location + i]
      /\ v + HeadLen + Len(d) <= win.location + Len(w)
  BY <1>3 DEF IInv, WinInv, Behind, Last
<1>5. /\ LengthAt(file, v) = Len(d)
      /\ \A i \in 1..Len(d) : file[v + HeadLen + i] = d[i]
  BY DEF IInv, FileInv, Holds
<1> HIDE DEF d, w, p
<1>6. p + 2 + Len(d) <= Len(w)
  BY <1>1, <1>2, <1>4 DEF HeadLen
<1>7. \A i \in 1..(2 + Len(d)) : w[p + i] = file[v + i]
  <2>1. ASSUME NEW i \in 1..(2 + Len(d)) PROVE w[p + i] = file[v + i]
    <3>1. p + i \in 1..Len(w) /\ win.location + (p + i) = v + i
      BY <1>1, <1>2, <1>6
    <3> QED BY <1>4, <3>1
  <2> QED BY <2>1
<1>8. LengthAt(w, p) = Len(d)
  <2>1. w[p + 1] = file[v + 1] /\ w[p + 2] = file[v + 2]
    BY <1>1, <1>7
  <2> QED BY <1>5, <2>1 DEF LengthAt
<1>9. Slice(w, p + HeadLen, Len(d)) = d
  <2>1. p + 2 \in Nat /\ (p + 2) + Len(d) <= Len(w)
    BY <1>1, <1>2, <1>6
  <2> DEFINE e == Slice(w, p + 2, Len(d))
  <2>2. e \in Seq(Byte) /\ Len(e) = Len(d) /\ \A i \in 1..Len(d) : e[i] = w[(p + 2) + i]
    BY <1>1, <2>1, SliceFacts
  <2>3. ASSUME NEW i \in 1..Len(d) PROVE e[i] = d[i]
    <3>1. 2 + i \in 1..(2 + Len(d)) /\ p + (2 + i) = (p + 2) + i /\ v + (2 + i) = (v + 2) + i
      BY <1>1, <1>2
    <3>2. w[(p + 2) + i] = file[(v + 2) + i]
      BY <1>7, <3>1
    <3>3. file[(v + 2) + i] = d[i]
      BY <1>5 DEF HeadLen
    <3> QED BY <2>2, <3>2, <3>3
  <2> HIDE DEF e
  <2>4. e = d
    BY <1>1, <2>2, <2>3
  <2> QED BY <2>4 DEF e, HeadLen
<1>10. p + HeadLen <= Len(w) /\ p + HeadLen + LengthAt(w, p) <= Len(w)
  BY <1>1, <1>2, <1>6, <1>8 DEF HeadLen
<1> QED BY <1>8, <1>9, <1>10 DEF Taken, d, w, p

LEMMA TakenGiven ==
    ASSUME IInv, NEW v \in DOMAIN blobs, InBuffer(win, v), NEW w, w.location = win.location
    PROVE  Given(Taken(win, v), w, blobs, torn)
<1>1. Taken(win, v).place = v
  BY DEF Taken, Answer
<1>2. Clean(torn, win.location, v) => Taken(win, v) = Answer("blob", v, blobs[v])
  BY TakenWhole
<1> QED BY <1>1, <1>2 DEF Given

LEMMA ReadHitStep == ASSUME IInv, NEW v \in DOMAIN blobs, ReadHit(v) PROVE IInv'
<1>1. out' = Taken(win, v) /\ InBuffer(win, v) /\ UNCHANGED <<file, blobs, torn, win, asked>>
  BY DEF ReadHit
<1>2. v \in Nat /\ win.location \in Nat /\ win.bytes \in Seq(Byte)
  BY Types DEF IInv
<1>3. TypeOK'
  BY <1>1, <1>2, TakenType DEF IInv, TypeOK
<1>4. Given(Taken(win, v), win, blobs, torn)
  BY <1>1, TakenGiven
<1>5. AskInv'
  BY <1>1 DEF ReadHit, AskInv
<1> QED BY <1>1, <1>3, <1>4, <1>5 DEF IInv

LEMMA ReadBeginStep == ASSUME IInv, NEW v \in DOMAIN blobs, ReadBegin(v) PROVE IInv'
<1>1. /\ win' = [win EXCEPT !.location = v, !.bytes = <<>>] /\ asked' = v /\ out' = NoAnswer
      /\ UNCHANGED <<file, blobs, torn>>
  BY DEF ReadBegin
<1>2. TypeOK /\ v \in Nat
  BY Types DEF IInv
<1>3. win' \in [location : Nat, bytes : Seq(Byte), size : Nat] /\ win'.location = v /\ win'.bytes = <<>>
  <2>1. win = [location |-> win.location, bytes |-> win.bytes, size |-> win.size] /\ win.size \in Nat
    BY <1>2, Types
  <2>2. win' = [location |-> v, bytes |-> <<>>, size |-> win.size]
    BY <1>1, <2>1
  <2>3. <<>> \in Seq(Byte)
    OBVIOUS
  <2> QED BY <1>2, <2>1, <2>2, <2>3
<1>4. NoAnswer.kind = "none" /\ NoAnswer \in [kind : {"none", "blob", "junk", "null", "fail"},
                                              place : Nat, data : Seq(Byte)]
  <2>1. <<>> \in Seq(Byte)
    OBVIOUS
  <2> QED BY <2>1 DEF NoAnswer, Answer
<1>5. TypeOK'
  BY <1>1, <1>2, <1>3, <1>4 DEF TypeOK
<1>6. WinInv(file, blobs, torn, win')
  BY <1>3 DEF WinInv
<1>7. AskInv'
  BY <1>1, <1>3 DEF AskInv, NoAnswer
<1>8. Given(out', win', blobs, torn)
  BY <1>1, <1>4 DEF Given
<1> QED BY <1>1, <1>5, <1>6, <1>7, <1>8 DEF IInv

\* What the loop is at, while it has a next record.
LEMMA AtFacts ==
    ASSUME IInv, asked # 0
    PROVE  /\ At \in Nat /\ At = Last(win) /\ win.location \in DOMAIN blobs /\ win.location \in Nat
           /\ HeadThere => Upto \in Nat /\ At + HeadLen <= Upto
           /\ HeadThere => Allotted \in Nat
           /\ At \in DOMAIN blobs => /\ HeadThere /\ Upto = Behind(blobs, At) /\ Upto <= Len(file)
           /\ HeadThere /\ Clean(torn, win.location, At) => At \in DOMAIN blobs
<1>1. TypeOK /\ WinInv(file, blobs, torn, win) /\ FileInv(file, blobs, torn)
  BY DEF IInv
<1>2. /\ file \in Seq(Byte) /\ Len(file) \in Nat /\ win.location \in Nat
      /\ win.bytes \in Seq(Byte) /\ Len(win.bytes) \in Nat /\ win.size \in Nat
      /\ \A v \in DOMAIN blobs : Len(blobs[v]) \in Nat
  BY <1>1, Types
<1>3. At = win.location + Len(win.bytes) /\ At = Last(win) /\ At \in Nat
  BY <1>2 DEF At, Last
<1>4. win.location \in DOMAIN blobs
  BY DEF IInv, AskInv
<1>5. ASSUME HeadThere PROVE Upto \in Nat /\ At + HeadLen <= Upto /\ Allotted \in Nat
  <2>1. LengthAt(file, At) \in Nat
    BY <1>2, <1>3, <1>5, LengthIsNat DEF HeadThere
  <2>2. Upto \in Nat /\ At + HeadLen <= Upto /\ Upto - At \in Nat
    BY <1>3, <2>1 DEF Upto, HeadLen
  <2>3. Allotted \in Nat
    BY <1>2, <2>2, FDBBlobAssumption DEF Allotted, Larger
  <2> QED BY <2>2, <2>3
<1>6. ASSUME At \in DOMAIN blobs
      PROVE  HeadThere /\ Upto = Behind(blobs, At) /\ Upto <= Len(file)
  <2>1. At + HeadLen + Len(blobs[At]) <= Len(file) /\ LengthAt(file, At) = Len(blobs[At])
    BY <1>1, <1>6 DEF FileInv, Holds
  <2>2. Upto = Behind(blobs, At)
    BY <2>1 DEF Upto, Behind
  <2>3. Len(blobs[At]) \in Nat
    BY <1>2, <1>6
  <2> QED BY <1>2, <1>3, <2>1, <2>2, <2>3 DEF HeadThere, Behind, HeadLen
<1>7. ASSUME HeadThere, Clean(torn, win.location, At) PROVE At \in DOMAIN blobs
  <2>1. CASE win.bytes = <<>>
    BY <1>2, <1>3, <1>4, <2>1
  <2>2. CASE win.bytes # <<>>
    <3>1. Clean(torn, win.location, At - 1)
      <4>1. \A t \in win.location..(At - 1) : t \in win.location..At
        BY <1>2, <1>3
      <4> QED BY <1>7, <4>1 DEF Clean
    <3>2. At \in DOMAIN blobs \cup torn \cup {Len(file)}
      BY <1>1, <1>3, <2>2, <3>1 DEF WinInv
    <3>3. At # Len(file)
      BY <1>2, <1>3, <1>7 DEF HeadThere, HeadLen
    <3>4. At \notin torn
      <4>1. At \in win.location..At
        BY <1>2, <1>3
      <4> QED BY <1>7, <4>1 DEF Clean
    <3> QED BY <3>2, <3>3, <3>4
  <2> QED BY <2>1, <2>2
<1> QED BY <1>2, <1>3, <1>4, <1>5, <1>6, <1>7

LEMMA ReadRecordStep == ASSUME IInv, ReadRecord PROVE IInv'
<1> DEFINE piece == Slice(file, At, Upto - At)
           more == win.bytes \o piece
           loc == win.location
<1>1. /\ asked # 0 /\ HeadThere /\ Upto <= Len(file)
      /\ win' = [win EXCEPT !.bytes = more, !.size = Allotted]
      /\ UNCHANGED <<file, blobs, torn, asked, out>>
  BY DEF ReadRecord, Fits
<1>2. TypeOK /\ WinInv(file, blobs, torn, win) /\ FileInv(file, blobs, torn)
  BY DEF IInv
<1>3. /\ file \in Seq(Byte) /\ Len(file) \in Nat /\ win.location \in Nat
      /\ win.bytes \in Seq(Byte) /\ Len(win.bytes) \in Nat
      /\ win = [location |-> loc, bytes |-> win.bytes, size |-> win.size]
      /\ DOMAIN blobs \subseteq Nat
  BY <1>2, Types
<1>4. /\ At \in Nat /\ At = Last(win) /\ At = loc + Len(win.bytes) /\ Upto \in Nat
      /\ At + 2 <= Upto /\ Allotted \in Nat
      /\ (At \in DOMAIN blobs => Upto = Behind(blobs, At))
      /\ (Clean(torn, loc, At) => At \in DOMAIN blobs)
  BY <1>1, AtFacts DEF HeadLen, Last
<1>5. PICK n \in Nat : n = Upto - At
  BY <1>4
<1>6. At + n = Upto
  BY <1>4, <1>5
<1>7. piece \in Seq(Byte) /\ Len(piece) = n /\ \A i \in 1..n : piece[i] = file[At + i]
  <2>1. /\ Slice(file, At, n) \in Seq(Byte) /\ Len(Slice(file, At, n)) = n
        /\ \A i \in 1..n : Slice(file, At, n)[i] = file[At + i]
    BY <1>1, <1>3, <1>4, <1>6, SliceFacts
  <2> QED BY <1>5, <2>1
<1> HIDE DEF piece
<1>7a. more = win.bytes \o piece
  OBVIOUS
<1> HIDE DEF more
<1>8. /\ more \in Seq(Byte) /\ Len(more) = Len(win.bytes) + n
      /\ \A i \in 1..Len(win.bytes) : more[i] = win.bytes[i]
      /\ \A i \in 1..n : more[Len(win.bytes) + i] = piece[i]
  <2>1. /\ more \in Seq(Byte)
        /\ \A i \in 1..Len(win.bytes) : more[i] = win.bytes[i]
    BY <1>3, <1>7, <1>7a, ConcatIs
  <2>1a. Len(more) = Len(win.bytes) + Len(piece)
    BY <1>3, <1>7, <1>7a, ConcatLength
  <2>2. ASSUME NEW i \in 1..Len(piece) PROVE more[Len(win.bytes) + i] = piece[i]
    BY <1>3, <1>7, <1>7a, ConcatBehind
  <2> QED BY <1>7, <2>1, <2>1a, <2>2
<1>9. win' = [location |-> loc, bytes |-> more, size |-> Allotted]
  BY <1>1, <1>3
<1> HIDE DEF loc
<1>10. loc = win.location /\ loc \in Nat /\ win'.location = loc /\ win'.bytes = more
  BY <1>3, <1>9 DEF loc
<1>11. Last(win') = Upto
  BY <1>3, <1>4, <1>6, <1>8, <1>10 DEF Last
<1>12. \A i \in 1..Len(more) : more[i] = file[loc + i]
  <2>1. ASSUME NEW i \in 1..Len(more) PROVE more[i] = file[loc + i]
    <3>1. CASE i <= Len(win.bytes)
      <4>1. i \in 1..Len(win.bytes) /\ win.bytes # <<>>
        BY <1>3, <3>1
      <4>2. win.bytes[i] = file[loc + i]
        BY <1>2, <1>10, <4>1 DEF WinInv
      <4> QED BY <1>8, <4>1, <4>2
    <3>2. CASE ~(i <= Len(win.bytes))
      <4>1. PICK j \in 1..n : i = Len(win.bytes) + j
        <5>1. i - Len(win.bytes) \in 1..n /\ i = Len(win.bytes) + (i - Len(win.bytes))
          BY <1>3, <1>8, <3>2
        <5> QED BY <5>1
      <4>2. At + j = loc + i
        BY <1>3, <1>4, <1>10, <4>1
      <4> QED BY <1>7, <1>8, <4>1, <4>2
    <3> QED BY <3>1, <3>2
  <2> QED BY <2>1
<1>13. Clean(torn, loc, Upto - 1) => Upto \in DOMAIN blobs \cup torn \cup {Len(file)}
  <2> SUFFICES ASSUME Clean(torn, loc, Upto - 1)
               PROVE  Upto \in DOMAIN blobs \cup torn \cup {Len(file)}
    OBVIOUS
  <2>1. \A t \in loc..At : t \in loc..(Upto - 1)
    BY <1>4, <1>10
  <2>2. At \in DOMAIN blobs
    BY <1>4, <2>1 DEF Clean
  <2> QED BY <1>2, <1>4, <2>2 DEF FileInv
<1>14. ASSUME NEW v \in DOMAIN blobs, InBuffer(win', v), Clean(torn, loc, v)
       PROVE  Behind(blobs, v) <= Upto
  <2>1. v \in Nat /\ v >= loc /\ v < Upto
    BY <1>3, <1>10, <1>11, <1>14 DEF InBuffer, Last
  <2>2. CASE v < At
    <3>1. win.bytes # <<>> /\ InBuffer(win, v)
      <4>1. Len(win.bytes) # 0
        BY <1>3, <1>4, <1>10, <2>1, <2>2
      <4> QED BY <1>4, <1>10, <2>1, <2>2, <4>1 DEF InBuffer
    <3>2. Behind(blobs, v) <= At
      BY <1>2, <1>4, <1>10, <1>14, <3>1 DEF WinInv
    <3>3. Behind(blobs, v) \in Nat
      <4>1. Len(blobs[v]) \in Nat
        BY <1>2, <1>14, Types
      <4> QED BY <2>1, <4>1 DEF Behind, HeadLen
    <3> QED BY <1>4, <3>2, <3>3
  <2>3. CASE v >= At
    <3>1. \A t \in loc..At : t \in loc..v
      BY <1>4, <1>10, <2>1, <2>3
    <3>2. At \in DOMAIN blobs
      BY <1>4, <1>14, <3>1 DEF Clean
    <3>3. At < v => Upto <= v
      BY <1>2, <1>4, <1>14, <3>2 DEF FileInv
    <3>4. v = At
      BY <1>4, <2>1, <2>3, <3>3
    <3> QED BY <1>4, <3>2, <3>4
  <2> QED BY <1>4, <2>1, <2>2, <2>3
<1>15. WinInv(file, blobs, torn, win')
  BY <1>1, <1>10, <1>11, <1>12, <1>13, <1>14 DEF WinInv
<1>16. TypeOK'
  <2>1. win' \in [location : Nat, bytes : Seq(Byte), size : Nat]
    BY <1>4, <1>8, <1>9, <1>10
  <2> QED BY <1>1, <1>2, <2>1 DEF TypeOK
<1>17. AskInv'
  BY <1>1, <1>10 DEF IInv, AskInv
<1>18. Given(out', win', blobs, torn)
  BY <1>1, <1>10 DEF IInv, Given
<1> QED BY <1>1, <1>2, <1>15, <1>16, <1>17, <1>18 DEF IInv

LEMMA FailedAnswer ==
    ASSUME NEW v \in Nat
    PROVE  /\ Answer("fail", v, <<>>) \in [kind : {"none", "blob", "junk", "null", "fail"},
                                           place : Nat, data : Seq(Byte)]
           /\ Answer("fail", v, <<>>).kind = "fail"
<1>1. <<>> \in Seq(Byte)
  OBVIOUS
<1> QED BY <1>1 DEF Answer

\* An answer that ends a read, whatever became of the allocation.
LEMMA Answered ==
    ASSUME IInv, asked # 0, UNCHANGED <<file, blobs, torn>>, asked' = 0,
           win' = win \/ (HeadThere /\ win' = [win EXCEPT !.size = Allotted]),
           NEW k \in {"null", "fail"}, k = "null" => InBuffer(win, asked),
           out' = IF InBuffer(win, asked) THEN Taken(win, asked) ELSE Answer(k, asked, <<>>)
    PROVE  IInv'
<1>1. TypeOK /\ FileInv(file, blobs, torn) /\ WinInv(file, blobs, torn, win)
  BY DEF IInv
<1>2. /\ win = [location |-> win.location, bytes |-> win.bytes, size |-> win.size]
      /\ win.location \in Nat /\ win.bytes \in Seq(Byte) /\ win.size \in Nat /\ asked \in Nat
  BY <1>1, Types
<1>3. asked \in DOMAIN blobs
  BY DEF IInv, AskInv
<1>4. PICK n \in Nat : win' = [location |-> win.location, bytes |-> win.bytes, size |-> n]
  <2>1. CASE win' = win
    BY <1>2, <2>1
  <2>2. CASE HeadThere /\ win' = [win EXCEPT !.size = Allotted]
    <3>1. Allotted \in Nat
      BY <2>2, AtFacts
    <3>2. win' = [location |-> win.location, bytes |-> win.bytes, size |-> Allotted]
      BY <1>2, <2>2
    <3> QED BY <3>1, <3>2
  <2> QED BY <2>1, <2>2
<1>5. win'.location = win.location /\ win'.bytes = win.bytes
  BY <1>4
<1>6. WinInv(file, blobs, torn, win')
  BY <1>1, <1>5 DEF WinInv, InBuffer, Last
<1>7. /\ out' \in [kind : {"none", "blob", "junk", "null", "fail"}, place : Nat, data : Seq(Byte)]
      /\ Given(out', win', blobs, torn)
  <2>1. CASE InBuffer(win, asked)
    BY <1>2, <1>3, <1>5, <2>1, TakenType, TakenGiven
  <2>2. CASE ~InBuffer(win, asked)
    <3>1. out' = Answer("fail", asked, <<>>)
      BY <2>2
    <3>2. /\ out' \in [kind : {"none", "blob", "junk", "null", "fail"}, place : Nat, data : Seq(Byte)]
          /\ out'.kind = "fail"
      BY <1>2, <3>1, FailedAnswer
    <3> QED BY <3>2 DEF Given
  <2> QED BY <2>1, <2>2
<1>8. TypeOK'
  <2>1. win' \in [location : Nat, bytes : Seq(Byte), size : Nat]
    BY <1>2, <1>4
  <2> QED BY <1>1, <1>7, <2>1 DEF TypeOK
<1>9. AskInv'
  BY DEF AskInv
<1> QED BY <1>1, <1>6, <1>7, <1>8, <1>9 DEF IInv

\* The first record always fits, so a read that ends has what it was asked for.
LEMMA ReadEndStep == ASSUME IInv, ReadEnd PROVE IInv'
<1>1. /\ asked # 0 /\ ~(HeadThere /\ Fits) /\ asked' = 0 /\ UNCHANGED <<file, blobs, torn>>
      /\ win' = win \/ (HeadThere /\ win' = [win EXCEPT !.size = Allotted])
      /\ out' = IF InBuffer(win, asked) THEN Taken(win, asked) ELSE Answer("null", asked, <<>>)
  BY DEF ReadEnd
<1>2. /\ win.location \in Nat /\ win.bytes \in Seq(Byte) /\ Len(win.bytes) \in Nat
      /\ win.size \in Nat /\ asked = win.location
  BY <1>1, Types DEF IInv, AskInv
<1>3. InBuffer(win, asked)
  <2> SUFFICES ASSUME win.bytes = <<>> PROVE FALSE
    <3>1. Len(win.bytes) > 0 => InBuffer(win, asked)
      BY <1>2 DEF InBuffer
    <3>2. win.bytes # <<>> => Len(win.bytes) > 0
      BY <1>2
    <3> QED BY <3>1, <3>2
  <2>1. At = win.location
    BY <1>2 DEF At
  <2>2. HeadThere /\ Upto <= Len(file) /\ Upto \in Nat /\ At \in Nat
    BY <1>1, <2>1, AtFacts
  <2>3. Allotted = Larger(IF win.size = 0 THEN BufSize ELSE win.size, Upto - At)
    BY DEF Allotted
  <2>4. Upto - At <= Allotted
    <3> DEFINE m == IF win.size = 0 THEN BufSize ELSE win.size
    <3>1. m \in Nat
      BY <1>2, FDBBlobAssumption
    <3> HIDE DEF m
    <3>2. Allotted = IF m < Upto - At THEN Upto - At ELSE m
      BY <2>3 DEF Larger, m
    <3> QED BY <2>2, <3>1, <3>2
  <2>5. Fits
    BY <2>1, <2>2, <2>4 DEF Fits
  <2> QED BY <1>1, <2>2, <2>5
<1> QED BY <1>1, <1>3, Answered

LEMMA ReadFailsStep == ASSUME IInv, ReadFails PROVE IInv'
<1>1. /\ asked # 0 /\ asked' = 0 /\ UNCHANGED <<file, blobs, torn>>
      /\ win' = win \/ (HeadThere /\ win' = [win EXCEPT !.size = Allotted])
      /\ out' = IF InBuffer(win, asked) THEN Taken(win, asked) ELSE Answer("fail", asked, <<>>)
  BY DEF ReadFails
<1> QED BY <1>1, Answered

LEMMA Rest ==
    /\ Empty \in [location : Nat, bytes : Seq(Byte), size : Nat] /\ Empty.bytes = <<>>
    /\ NoAnswer.kind = "none"
    /\ NoAnswer \in [kind : {"none", "blob", "junk", "null", "fail"}, place : Nat, data : Seq(Byte)]
<1>1. <<>> \in Seq(Byte)
  OBVIOUS
<1> QED BY <1>1 DEF Empty, NoAnswer, Answer

LEMMA ReopenStep == ASSUME IInv, Reopen PROVE IInv'
<1>1. asked = 0 /\ win' = Empty /\ out' = NoAnswer /\ UNCHANGED <<file, blobs, torn, asked>>
  BY DEF Reopen
<1>2. TypeOK'
  BY <1>1, Rest DEF IInv, TypeOK
<1>3. WinInv(file, blobs, torn, Empty) /\ Given(NoAnswer, Empty, blobs, torn)
  BY Rest DEF WinInv, Given
<1>4. AskInv'
  BY <1>1 DEF AskInv
<1> QED BY <1>1, <1>2, <1>3, <1>4 DEF IInv

-----------------------------------------------------------------------------

LEMMA Starts == ASSUME Init PROVE IInv
<1>1. /\ file = <<>> /\ blobs = <<>> /\ torn = {} /\ win = Empty /\ asked = 0 /\ out = NoAnswer
  BY DEF Init
<1>2. <<>> \in Seq(Byte) /\ DOMAIN <<>> = {}
  OBVIOUS
<1>3. TypeOK
  BY <1>1, <1>2, Rest DEF TypeOK
<1>4. FileInv(file, blobs, torn)
  BY <1>1, <1>2 DEF FileInv
<1>5. WinInv(file, blobs, torn, win) /\ Given(out, win, blobs, torn)
  BY <1>1, Rest DEF WinInv, Given
<1> QED BY <1>1, <1>3, <1>4, <1>5 DEF IInv, AskInv

LEMMA Steps == ASSUME IInv, [Next]_vars PROVE IInv'
<1>1. CASE \E d \in Datas : Create(d) \/ CreateFails(d)
  BY <1>1, CreateStep, CreateFailsStep
<1>2. CASE \E v \in DOMAIN blobs : ReadHit(v) \/ ReadBegin(v)
  BY <1>2, ReadHitStep, ReadBeginStep
<1>3. CASE ReadRecord
  BY <1>3, ReadRecordStep
<1>4. CASE ReadEnd
  BY <1>4, ReadEndStep
<1>5. CASE ReadFails
  BY <1>5, ReadFailsStep
<1>6. CASE Reopen
  BY <1>6, ReopenStep
<1>7. CASE UNCHANGED vars
  BY <1>7 DEF vars, IInv, TypeOK, AskInv
<1> QED BY <1>1, <1>2, <1>3, <1>4, <1>5, <1>6, <1>7 DEF Next

\* The file, the buffer and the answers are as IInv says in every behaviour.
THEOREM Invariance == Spec => []IInv
<1> QED BY Starts, Steps, PTL DEF Spec

\* The blob file and the handle that reads it are well-typed.
THEOREM BlobTypeCorrect == Spec => []TypeOK
<1>1. IInv => TypeOK
  BY DEF IInv
<1> QED BY <1>1, Invariance, PTL

\* FDBBlobRead gives what FDBBlobCreate stored at the place it is asked for,
\* unless its buffer was filled across a torn record.
THEOREM BlobFoundAlways == Spec => []BlobFound
<1>1. IInv => BlobFound
  BY DEF IInv, Given, Clean, BlobFound
<1> QED BY <1>1, Invariance, PTL

\* The buffer ends where a record does, the file grown since or not.
THEOREM BufferFramedAlways == Spec => []BufferFramed
<1>1. IInv => BufferFramed
  BY DEF IInv, WinInv, Last, At, Clean, BufferFramed
<1> QED BY <1>1, Invariance, PTL
=============================================================================
