------------------------ MODULE ServerProcesses_proofs ------------------------
(***************************************************************************)
(* Proofs that the server loses no worker, for any number of slots and     *)
(* process ids, if no signal comes at one of the moments `torn' marks and  *)
(* no fork fails.                                                          *)
(***************************************************************************)
EXTENDS ServerProcesses, TLAPS

-----------------------------------------------------------------------------
(* The invariant.                                                          *)

Base == frame[1]

\* One loop of SRVServerRun at the bottom, handlers on top of it.
Stack ==
    /\ Base.kind \in {"start", "serve", "exit"}
    /\ \A k \in 2..Len(frame) : frame[k].kind \in {"chld", "quit"}
    /\ \A k \in DOMAIN frame :
          frame[k].child # 0 => frame[k].at \in Slots /\ frame[k].kind \in {"start", "chld"}

\* Nobody but the newest loop has a child that is not recorded.
Below == \A k \in DOMAIN frame : k < Len(frame) => frame[k].child = 0

\* The handler that restarts workers does not run before all were started.
Ordered == Within("chld") => Base.kind # "start" \/ Base.at > N

\* Slots that were not reached yet are empty.
Unstarted == Base.kind = "start" => \A p \in Slots : p >= Base.at => pid[p] = 0

\* The slot of a child that is not recorded is empty.
Unrecorded ==
    Top.child # 0 => /\ pid[Top.at] = 0
                     /\ proc[Top.child].state = "alive" => proc[Top.child].slot = Top.at

Known ==
    \A w \in Pids : proc[w].state = "alive" => pid[proc[w].slot] = w \/ Top.child = w

Good == Below /\ Ordered /\ Unstarted /\ Unrecorded /\ Known

IInv == TypeOK /\ Stack /\ (~torn /\ ended # "fork error" => Good)

-----------------------------------------------------------------------------
(* How the stack changes.                                                  *)

LEMMA SlotType == \A p \in Slots : p \in 1..(N + 1) /\ p + 1 \in 1..(N + 1) /\ p # 0 /\ p <= N /\ p \in Nat
BY ServerAssumption DEF Slots

LEMMA FreeType == Free \in ProcT /\ Free.state = "free"
BY DEF Free, ProcT

LEMMA FrameType ==
    TypeOK => frame \in Seq(FrameT) /\ Len(frame) \in Nat \ {0} /\ DOMAIN frame = 1..Len(frame)
<1>1. TypeOK => frame \in Seq(FrameT) /\ Len(frame) >= 1
  BY DEF TypeOK
<1>2. ASSUME frame \in Seq(FrameT), Len(frame) >= 1
      PROVE  Len(frame) \in Nat \ {0} /\ DOMAIN frame = 1..Len(frame)
  BY <1>2
<1> QED BY <1>1, <1>2

\* The newest loop goes on.
LEMMA LoopFrame ==
    ASSUME TypeOK, Stack, NEW i \in 1..(N + 1), NEW c \in Pids \cup {0}, Loop(i, c),
           c # 0 => i \in Slots /\ Top.kind \in {"start", "chld"}
    PROVE  /\ frame' \in Seq(FrameT) /\ Len(frame') = Len(frame) /\ Len(frame) \in Nat \ {0}
           /\ \A k \in DOMAIN frame : k < Len(frame) => frame'[k] = frame[k]
           /\ Top' = Frame(Top.kind, i, c)
           /\ Stack'
<1> DEFINE f == Frame(Top.kind, i, c)
<1>1. frame \in Seq(FrameT) /\ Len(frame) \in Nat \ {0} /\ DOMAIN frame = 1..Len(frame)
  BY FrameType
<1>2. Top \in FrameT
  BY <1>1 DEF Top
<1>3. f \in FrameT /\ f.kind = Top.kind /\ f.at = i /\ f.child = c
  BY <1>2 DEF Frame, FrameT
<1>4. frame' = [frame EXCEPT ![Len(frame)] = f]
  BY <1>1 DEF Loop, Top
<1> HIDE DEF f
<1>5. frame' \in Seq(FrameT) /\ Len(frame') = Len(frame) /\ DOMAIN frame' = DOMAIN frame
  BY <1>1, <1>3, <1>4
<1>6. \A k \in DOMAIN frame : frame'[k] = IF k = Len(frame) THEN f ELSE frame[k]
  BY <1>1, <1>4
<1>7. Top' = f
  BY <1>1, <1>5, <1>6 DEF Top
<1>8. Stack'
  <2>1. Base'.kind \in {"start", "serve", "exit"}
    BY <1>1, <1>3, <1>6 DEF Base, Stack, Top
  <2>2. \A k \in 2..Len(frame') : frame'[k].kind \in {"chld", "quit"}
    BY <1>1, <1>3, <1>5, <1>6 DEF Stack, Top
  <2>3. \A k \in DOMAIN frame' :
           frame'[k].child # 0 => frame'[k].at \in Slots /\ frame'[k].kind \in {"start", "chld"}
    BY <1>3, <1>5, <1>6 DEF Stack
  <2> QED BY <2>1, <2>2, <2>3 DEF Stack
<1> QED BY <1>1, <1>5, <1>6, <1>7, <1>8 DEF f

\* A handler comes on top.
LEMMA PushFrame ==
    ASSUME TypeOK, Stack, NEW kind \in {"chld", "quit"},
           frame' = Append(frame, Frame(kind, 1, 0))
    PROVE  /\ frame' \in Seq(FrameT) /\ Len(frame') = Len(frame) + 1 /\ Len(frame) \in Nat \ {0}
           /\ \A k \in DOMAIN frame : frame'[k] = frame[k]
           /\ Top' = Frame(kind, 1, 0)
           /\ Stack'
<1> DEFINE f == Frame(kind, 1, 0)
<1>1. frame \in Seq(FrameT) /\ Len(frame) \in Nat \ {0} /\ DOMAIN frame = 1..Len(frame)
  BY FrameType
<1>3. f \in FrameT /\ f.kind = kind /\ f.at = 1 /\ f.child = 0
  BY ServerAssumption DEF Frame, FrameT
<1> HIDE DEF f
<1>4. frame' = Append(frame, f)
  BY DEF f
<1>5. frame' \in Seq(FrameT) /\ Len(frame') = Len(frame) + 1
      /\ DOMAIN frame' = 1..(Len(frame) + 1)
  BY <1>1, <1>3, <1>4
<1>6. /\ \A k \in DOMAIN frame : frame'[k] = frame[k]
      /\ frame'[Len(frame) + 1] = f
  BY <1>1, <1>3, <1>4
<1>7. Top' = f
  BY <1>1, <1>5, <1>6 DEF Top
<1>8. Stack'
  <2>0. \A k \in DOMAIN frame' : k \in DOMAIN frame \/ k = Len(frame) + 1
    BY <1>1, <1>5
  <2>1. Base'.kind \in {"start", "serve", "exit"}
    BY <1>1, <1>6 DEF Base, Stack
  <2>2. \A k \in 2..Len(frame') : frame'[k].kind \in {"chld", "quit"}
    BY <1>1, <1>3, <1>5, <1>6 DEF Stack
  <2>3. \A k \in DOMAIN frame' :
           frame'[k].child # 0 => frame'[k].at \in Slots /\ frame'[k].kind \in {"start", "chld"}
    BY <1>3, <1>6, <2>0 DEF Stack
  <2> QED BY <2>1, <2>2, <2>3 DEF Stack
<1> QED BY <1>1, <1>5, <1>6, <1>7, <1>8 DEF f
-----------------------------------------------------------------------------
(* One lemma for each kind of step.                                        *)

LEMMA TypeParts ==
    ASSUME TypeOK
    PROVE  /\ pid \in [Slots -> Pids \cup {0}]
           /\ proc \in [Pids -> ProcT]
           /\ pending \in BOOLEAN /\ torn \in BOOLEAN
           /\ ended \in {"no", "exit", "quit", "fork error"}
BY DEF TypeOK

LEMMA Positive == \A n \in Nat \ {0} : n >= 1
OBVIOUS

LEMMA TypeAgain ==
    ASSUME pid' \in [Slots -> Pids \cup {0}], proc' \in [Pids -> ProcT],
           frame' \in Seq(FrameT), Len(frame') \in Nat \ {0},
           pending' \in BOOLEAN, torn' \in BOOLEAN,
           ended' \in {"no", "exit", "quit", "fork error"}
    PROVE  TypeOK'
<1>1. Len(frame') >= 1
  BY Positive
<1> QED BY <1>1 DEF TypeOK

LEMMA TopType ==
    TypeOK => Top \in FrameT /\ Len(frame) \in DOMAIN frame /\ Top = frame[Len(frame)]
<1> SUFFICES ASSUME TypeOK PROVE Top \in FrameT /\ Len(frame) \in DOMAIN frame
  BY DEF Top
<1>1. frame \in Seq(FrameT) /\ Len(frame) \in Nat \ {0}
  BY FrameType
<1> QED BY <1>1 DEF Top

LEMMA BaseType == TypeOK => Base \in FrameT /\ Base.at \in Nat
<1> SUFFICES ASSUME TypeOK PROVE Base \in FrameT /\ Base.at \in Nat
  OBVIOUS
<1>1. frame \in Seq(FrameT) /\ Len(frame) \in Nat \ {0}
  BY FrameType
<1>2. Base \in FrameT
  BY <1>1 DEF Base
<1>3. Base.at \in 1..(N + 1)
  BY <1>2 DEF FrameT
<1> QED BY <1>2, <1>3, ServerAssumption

\* A loop that goes on keeps what is said of the stack.
LEMMA LoopGood ==
    ASSUME TypeOK, Stack, Below, Ordered,
           NEW i \in 1..(N + 1), NEW c \in Pids \cup {0}, Loop(i, c), i >= Top.at,
           c # 0 => i \in Slots /\ Top.kind \in {"start", "chld"}
    PROVE  /\ Below' /\ Ordered'
           /\ Base'.kind = Base.kind /\ Base'.at >= Base.at
           /\ Base'.at \in Nat
           /\ Len(frame) = 1 => Base'.at = i
           /\ Top'.child = c /\ Top'.at = i /\ Top'.kind = Top.kind
<1>1. /\ frame' \in Seq(FrameT) /\ Len(frame') = Len(frame) /\ Len(frame) \in Nat \ {0}
      /\ \A k \in DOMAIN frame : k < Len(frame) => frame'[k] = frame[k]
      /\ Top' = Frame(Top.kind, i, c)
  BY LoopFrame
<1>2. frame \in Seq(FrameT) /\ DOMAIN frame = 1..Len(frame) /\ DOMAIN frame' = 1..Len(frame)
  BY <1>1, FrameType
<1>3. Top'.child = c /\ Top'.at = i /\ Top'.kind = Top.kind
  BY <1>1 DEF Frame
<1>4. Below'
  BY <1>1, <1>2 DEF Below
<1>5. Top' = frame'[Len(frame)] /\ Top = frame[Len(frame)]
  BY <1>1 DEF Top
<1>6. \A k \in DOMAIN frame : frame'[k].kind = frame[k].kind
  BY <1>1, <1>2, <1>3, <1>5
<1>7. Base'.kind = Base.kind
  BY <1>1, <1>2, <1>6 DEF Base
<1>8. Base \in FrameT /\ Base' \in FrameT
  BY <1>1, <1>2 DEF Base
<1>9. Base.at \in Nat /\ Base'.at \in Nat
  BY <1>8, ServerAssumption DEF FrameT
<1>10. (Len(frame) = 1 => Base'.at = i) /\ Base'.at >= Base.at
  <2>1. CASE Len(frame) = 1
    BY <1>3, <1>5, <2>1 DEF Base
  <2>2. CASE Len(frame) # 1
    <3>1. Base' = Base
      BY <1>1, <1>2, <2>2 DEF Base
    <3> QED BY <1>9, <2>2, <3>1
  <2> QED BY <2>1, <2>2
<1>11. Ordered'
  <2>1. Within("chld")' => Within("chld")
    BY <1>2, <1>6 DEF Within
  <2> QED BY <1>7, <1>9, <1>10, <2>1, ServerAssumption DEF Ordered
<1> QED BY <1>3, <1>4, <1>7, <1>9, <1>10, <1>11

\* SVRServerRunProcess for an empty slot.
LEMMA RunStep ==
    ASSUME IInv, NEW p \in Slots, NEW kind \in {"start", "chld"}, At(kind, p),
           kind = "start" \/ pid[p] = 0,
           RunProcess(p), UNCHANGED <<pid, pending, torn>>
    PROVE  IInv'
<1>0. TypeOK /\ Stack
  BY DEF IInv
<1>1. /\ pid \in [Slots -> Pids \cup {0}] /\ proc \in [Pids -> ProcT]
      /\ pending \in BOOLEAN /\ torn \in BOOLEAN
      /\ ended \in {"no", "exit", "quit", "fork error"}
  BY <1>0, TypeParts
<1>2. Top.kind = kind /\ Top.at = p /\ Top.child = 0 /\ ended = "no"
  BY DEF At, Running
<1>3. frame \in Seq(FrameT) /\ Len(frame) \in Nat \ {0} /\ DOMAIN frame = 1..Len(frame)
  BY <1>0, FrameType
<1>4. kind = "start" => Len(frame) = 1 /\ Base = Top
  BY <1>0, <1>2, <1>3 DEF Stack, Top, Base
<1>5. p \in 1..(N + 1) /\ p + 1 \in 1..(N + 1) /\ p \in Nat
  BY SlotType
<1>6. Good => pid[p] = 0
  BY <1>2, <1>4, <1>5 DEF Good, Unstarted
<1>7. CASE p \in Refusing /\ Loop(p + 1, 0) /\ UNCHANGED <<proc, ended>>
  <2>1. frame' \in Seq(FrameT) /\ Len(frame') = Len(frame) /\ Stack'
    BY <1>0, <1>5, <1>7, LoopFrame
  <2>2. TypeOK'
    BY <1>1, <1>3, <1>7, <2>1, TypeAgain
  <2>3. ASSUME Good PROVE Good'
    <3>1. /\ Below' /\ Ordered' /\ Base'.kind = Base.kind /\ Base'.at >= Base.at
          /\ Base'.at \in Nat /\ Top'.child = 0
      BY <1>0, <1>2, <1>5, <1>7, <2>3, LoopGood DEF Good
    <3>2. Base.at \in Nat
      BY <1>0, BaseType
    <3>3. Unstarted'
      BY <2>3, <3>1, <3>2, SlotType DEF Good, Unstarted
    <3>4. Unrecorded'
      BY <3>1 DEF Unrecorded
    <3>5. Known'
      BY <1>2, <1>7, <2>3, ServerAssumption DEF Good, Known
    <3> QED BY <3>1, <3>3, <3>4, <3>5 DEF Good
  <2> QED BY <1>7, <2>1, <2>2, <2>3 DEF IInv
<1>8. ASSUME NEW w \in Pids, proc[w] = Free, Loop(p, w), UNCHANGED ended,
             proc' = [proc EXCEPT ![w] = [slot |-> p, state |-> "alive"]]
      PROVE  IInv'
  <2>0. w # 0
    BY ServerAssumption
  <2>1. frame' \in Seq(FrameT) /\ Len(frame') = Len(frame) /\ Stack'
    BY <1>0, <1>2, <1>5, <1>8, LoopFrame
  <2>2. proc' \in [Pids -> ProcT]
    BY <1>1, <1>8 DEF ProcT
  <2>3. TypeOK'
    BY <1>1, <1>3, <1>8, <2>1, <2>2, TypeAgain
  <2>4. ASSUME Good PROVE Good'
    <3>1. /\ Below' /\ Ordered' /\ Base'.kind = Base.kind /\ Base'.at >= Base.at
          /\ Base'.at \in Nat /\ Top'.child = w /\ Top'.at = p
      BY <1>0, <1>2, <1>5, <1>8, <2>4, LoopGood DEF Good
    <3>2. Base.at \in Nat
      BY <1>0, BaseType
    <3>3. Unstarted'
      BY <2>4, <3>1, <3>2, SlotType DEF Good, Unstarted
    <3>4. \A v \in Pids : proc'[v] = IF v = w THEN [slot |-> p, state |-> "alive"] ELSE proc[v]
      BY <1>1, <1>8
    <3>5. Unrecorded'
      BY <1>6, <2>4, <3>1, <3>4 DEF Unrecorded
    <3>6. Known'
      BY <1>2, <2>4, <3>1, <3>4, ServerAssumption DEF Good, Known
    <3> QED BY <3>1, <3>3, <3>5, <3>6 DEF Good
  <2> QED BY <1>8, <2>1, <2>3, <2>4 DEF IInv
<1>9. CASE ended' = "fork error" /\ UNCHANGED <<proc, frame>>
  <2>1. TypeOK'
    BY <1>0, <1>1, <1>3, <1>9, TypeAgain
  <2>2. Stack'
    BY <1>0, <1>9 DEF Stack, Base
  <2> QED BY <1>9, <2>1, <2>2 DEF IInv
<1> QED BY <1>7, <1>8, <1>9 DEF RunProcess
LEMMA StartStep == ASSUME IInv, NEW p \in Slots, Start(p) PROVE IInv'
BY RunStep DEF Start

LEMMA RestartStep == ASSUME IInv, NEW p \in Slots, Restart(p) PROVE IInv'
BY RunStep DEF Restart

\* The record takes an empty slot for a worker nobody else is told of.
LEMMA RecordStep == ASSUME IInv, Record PROVE IInv'
<1>0. TypeOK /\ Stack
  BY DEF IInv
<1>1. /\ pid \in [Slots -> Pids \cup {0}] /\ proc \in [Pids -> ProcT]
      /\ pending \in BOOLEAN /\ torn \in BOOLEAN
      /\ ended \in {"no", "exit", "quit", "fork error"}
  BY <1>0, TypeParts
<1>2. frame \in Seq(FrameT) /\ Len(frame) \in Nat \ {0} /\ DOMAIN frame = 1..Len(frame)
  BY <1>0, FrameType
<1>3. Top \in FrameT /\ Len(frame) \in DOMAIN frame /\ Top = frame[Len(frame)]
  BY <1>0, TopType
<1>4. Top.child # 0 /\ Top.child \in Pids /\ Top.at \in Slots
  BY <1>0, <1>3 DEF Record, FrameT, Stack
<1>5. Top.at + 1 \in 1..(N + 1) /\ Top.at \in Nat /\ 0 \in Pids \cup {0}
  BY <1>4, SlotType
<1>6. /\ pid' = [pid EXCEPT ![Top.at] = Top.child]
      /\ Loop(Top.at + 1, 0)
      /\ UNCHANGED <<proc, pending, ended, torn>>
  BY DEF Record
<1>7. frame' \in Seq(FrameT) /\ Len(frame') = Len(frame) /\ Stack'
  BY <1>0, <1>5, <1>6, LoopFrame
<1>8. pid' \in [Slots -> Pids \cup {0}]
      /\ \A q \in Slots : pid'[q] = IF q = Top.at THEN Top.child ELSE pid[q]
  BY <1>1, <1>4, <1>6
<1>9. TypeOK'
  BY <1>1, <1>2, <1>6, <1>7, <1>8, TypeAgain
<1>10. ASSUME Good PROVE Good'
  <2>1. /\ Below' /\ Ordered' /\ Base'.kind = Base.kind /\ Base'.at >= Base.at
        /\ Base'.at \in Nat /\ Top'.child = 0
        /\ Len(frame) = 1 => Base'.at = Top.at + 1
    BY <1>0, <1>5, <1>6, <1>10, LoopGood DEF Good
  <2>2. Base.at \in Nat
    BY <1>0, BaseType
  <2>3. Unstarted'
    <3> SUFFICES ASSUME Base'.kind = "start", NEW q \in Slots, q >= Base'.at
                 PROVE  pid'[q] = 0
      BY DEF Unstarted
    <3>1. pid[q] = 0
      BY <1>10, <2>1, <2>2, SlotType DEF Good, Unstarted
    <3>2. CASE Len(frame) = 1
      BY <1>5, <1>8, <2>1, <3>1, <3>2, SlotType
    <3>3. CASE Len(frame) # 1
      <4>1. Top.kind = "chld"
        BY <1>0, <1>2, <1>3, <1>4, <3>3 DEF Stack
      <4>2. Base.at > N
        BY <1>3, <1>10, <2>1, <4>1 DEF Good, Ordered, Within
      <4> QED BY <2>1, <2>2, <4>2, SlotType, ServerAssumption
    <3> QED BY <3>2, <3>3
  <2>4. Unrecorded'
    BY <2>1 DEF Unrecorded
  <2>5. Known'
    <3> SUFFICES ASSUME NEW w \in Pids, proc[w].state = "alive"
                 PROVE  pid'[proc[w].slot] = w
      BY <1>6 DEF Known
    <3>1. proc[w].slot \in Slots
      BY <1>1, FreeType DEF ProcT
    <3>2. pid[Top.at] = 0 /\ w # 0
      BY <1>4, <1>10, ServerAssumption DEF Good, Unrecorded
    <3>3. CASE w = Top.child
      BY <1>4, <1>8, <1>10, <3>1, <3>3 DEF Good, Unrecorded
    <3>4. CASE w # Top.child
      BY <1>8, <1>10, <3>1, <3>2, <3>4 DEF Good, Known
    <3> QED BY <3>3, <3>4
  <2> QED BY <2>1, <2>3, <2>4, <2>5 DEF Good
<1> QED BY <1>6, <1>7, <1>9, <1>10 DEF IInv

\* A step that leaves the stack alone, and empties slots of the dead only.
LEMMA SameStack ==
    ASSUME IInv, UNCHANGED <<frame, torn>>,
           pid' \in [Slots -> Pids \cup {0}], proc' \in [Pids -> ProcT],
           pending' \in BOOLEAN, ended' \in {"no", "exit", "quit", "fork error"},
           ended = "fork error" => ended' = "fork error",
           \A q \in Slots : pid'[q] = pid[q] \/ pid'[q] = 0,
           \A w \in Pids : proc'[w].state = "alive" =>
               /\ proc'[w] = proc[w]
               /\ pid[proc[w].slot] = w => pid'[proc[w].slot] = w
    PROVE  IInv'
<1>0. TypeOK /\ Stack
  BY DEF IInv
<1>1. torn' \in BOOLEAN
  BY <1>0, TypeParts
<1>2. frame \in Seq(FrameT) /\ Len(frame) \in Nat \ {0} /\ DOMAIN frame = 1..Len(frame)
  BY <1>0, FrameType
<1>3. TypeOK'
  BY <1>1, <1>2, TypeAgain
<1>4. Stack'
  BY <1>0 DEF Stack, Base
<1>5. ASSUME Good PROVE Good'
  <2>1. Below'
    BY <1>5 DEF Good, Below
  <2>2. Ordered'
    BY <1>5 DEF Good, Ordered, Within, Base
  <2>3. Unstarted'
    BY <1>5 DEF Good, Unstarted, Base
  <2>4. Unrecorded'
    <3> SUFFICES ASSUME Top.child # 0
                 PROVE  /\ pid'[Top.at] = 0
                        /\ proc'[Top.child].state = "alive" => proc'[Top.child].slot = Top.at
      BY DEF Unrecorded, Top
    <3>1. Top \in FrameT /\ Len(frame) \in DOMAIN frame /\ Top = frame[Len(frame)]
      BY <1>0, TopType
    <3>2. Top.child \in Pids /\ Top.at \in Slots
      BY <1>0, <3>1 DEF FrameT, Stack
    <3> QED BY <1>5, <3>2 DEF Good, Unrecorded
  <2>5. Known'
    BY <1>5 DEF Good, Known, Top
  <2> QED BY <2>1, <2>2, <2>3, <2>4, <2>5 DEF Good
<1> QED BY <1>3, <1>4, <1>5 DEF IInv
\* What kill leaves: the slot is empty, and its worker is not alive.
LEMMA KilledType ==
    ASSUME TypeOK, NEW p \in Slots, pid[p] # 0, Kill(p)
    PROVE  /\ pid' \in [Slots -> Pids \cup {0}] /\ proc' \in [Pids -> ProcT]
           /\ \A q \in Slots : pid'[q] = IF q = p THEN 0 ELSE pid[q]
           /\ \A w \in Pids \ {pid[p]} : proc'[w] = proc[w]
           /\ proc'[pid[p]].state # "alive"
<1>1. pid \in [Slots -> Pids \cup {0}] /\ proc \in [Pids -> ProcT]
  BY TypeParts
<1>2. pid[p] \in Pids
  BY <1>1
<1> DEFINE w == pid[p]
           r == IF proc[w].state = "alive" THEN [proc[w] EXCEPT !.state = "killed"]
                ELSE IF proc[w].state = "zombie" THEN Free ELSE proc[w]
<1>3. r \in ProcT /\ r.state # "alive"
  <2>1. proc[w] \in ProcT
    BY <1>1, <1>2
  <2>2. CASE proc[w].state = "alive"
    <3>1. proc[w] \in [slot : Slots, state : {"alive", "killed", "zombie"}]
      BY <2>1, <2>2, FreeType DEF ProcT
    <3>2. r = [proc[w] EXCEPT !.state = "killed"]
      BY <2>2
    <3>3. r \in [slot : Slots, state : {"alive", "killed", "zombie"}] /\ r.state = "killed"
      <4> HIDE DEF w, r
      <4> QED BY <3>1, <3>2
    <3> QED BY <3>3 DEF ProcT
  <2>3. CASE proc[w].state = "zombie"
    BY <2>3, FreeType
  <2>4. CASE proc[w].state \notin {"alive", "zombie"}
    BY <2>1, <2>4
  <2> QED BY <2>2, <2>3, <2>4
<1>4. pid' = [pid EXCEPT ![p] = 0] /\ proc' = [proc EXCEPT ![w] = r]
  BY <1>1, <1>2 DEF Kill
<1>5. w \in Pids
  BY <1>2
<1> HIDE DEF r
<1>6. pid' \in [Slots -> Pids \cup {0}] /\ \A q \in Slots : pid'[q] = IF q = p THEN 0 ELSE pid[q]
  BY <1>1, <1>4
<1>7. proc' \in [Pids -> ProcT] /\ \A v \in Pids : proc'[v] = IF v = w THEN r ELSE proc[v]
  <2> HIDE DEF w
  <2> QED BY <1>1, <1>3, <1>4, <1>5
<1> QED BY <1>3, <1>5, <1>6, <1>7

\* A loop goes past slot p, whose worker may just have been killed.
LEMMA PastStep ==
    ASSUME IInv, NEW p \in Slots, NEW kind \in {"exit", "quit", "chld"}, At(kind, p),
           Loop(p + 1, 0), UNCHANGED <<pending, ended, torn>>,
           (pid[p] # 0 /\ Kill(p)) \/ UNCHANGED <<pid, proc>>
    PROVE  IInv'
<1>0. TypeOK /\ Stack
  BY DEF IInv
<1>1. /\ pid \in [Slots -> Pids \cup {0}] /\ proc \in [Pids -> ProcT]
      /\ pending \in BOOLEAN /\ torn \in BOOLEAN
      /\ ended \in {"no", "exit", "quit", "fork error"}
  BY <1>0, TypeParts
<1>2. Top.kind = kind /\ Top.at = p /\ Top.child = 0
  BY DEF At, Running
<1>3. frame \in Seq(FrameT) /\ Len(frame) \in Nat \ {0} /\ DOMAIN frame = 1..Len(frame)
  BY <1>0, FrameType
<1>5. p \in 1..(N + 1) /\ p + 1 \in 1..(N + 1) /\ p \in Nat /\ 0 \in Pids \cup {0}
  BY SlotType
<1>6. frame' \in Seq(FrameT) /\ Len(frame') = Len(frame) /\ Stack'
  BY <1>0, <1>5, LoopFrame
<1>7. /\ pid' \in [Slots -> Pids \cup {0}] /\ proc' \in [Pids -> ProcT]
      /\ \A q \in Slots : pid'[q] = pid[q] \/ pid'[q] = 0
      /\ \A w \in Pids : proc'[w].state = "alive" =>
             /\ proc'[w] = proc[w]
             /\ \A q \in Slots : pid[q] = w => pid'[q] = w
  <2>1. CASE pid[p] # 0 /\ Kill(p)
    <3>1. /\ pid' \in [Slots -> Pids \cup {0}] /\ proc' \in [Pids -> ProcT]
          /\ \A q \in Slots : pid'[q] = IF q = p THEN 0 ELSE pid[q]
          /\ \A w \in Pids \ {pid[p]} : proc'[w] = proc[w]
          /\ proc'[pid[p]].state # "alive"
      BY <1>0, <2>1, KilledType
    <3> QED BY <3>1
  <2>2. CASE UNCHANGED <<pid, proc>>
    BY <1>1, <2>2
  <2> QED BY <2>1, <2>2
<1>8. TypeOK'
  BY <1>1, <1>3, <1>6, <1>7, TypeAgain
<1>9. ASSUME Good PROVE Good'
  <2>1. /\ Below' /\ Ordered' /\ Base'.kind = Base.kind /\ Base'.at >= Base.at
        /\ Base'.at \in Nat /\ Top'.child = 0
    BY <1>0, <1>2, <1>5, <1>9, LoopGood DEF Good
  <2>2. Base.at \in Nat
    BY <1>0, BaseType
  <2>3. Unstarted'
    <3>1. ASSUME Base.kind = "start", NEW q \in Slots, q >= Base'.at PROVE pid'[q] = 0
      <4>1. q >= Base.at
        BY <2>1, <2>2, <3>1, SlotType
      <4>2. pid[q] = 0
        BY <1>9, <3>1, <4>1 DEF Good, Unstarted
      <4> QED BY <1>7, <4>2
    <3> QED BY <2>1, <3>1 DEF Unstarted
  <2>4. Unrecorded'
    BY <2>1 DEF Unrecorded
  <2>5. Known'
    <3> SUFFICES ASSUME NEW w \in Pids, proc'[w].state = "alive"
                 PROVE  pid'[proc'[w].slot] = w
      BY DEF Known
    <3>1. proc'[w] = proc[w] /\ \A q \in Slots : pid[q] = w => pid'[q] = w
      BY <1>7
    <3>2. proc[w].slot \in Slots
      BY <1>1, <3>1, FreeType DEF ProcT
    <3>3. w # 0
      BY ServerAssumption
    <3> QED BY <1>2, <1>9, <3>1, <3>2, <3>3 DEF Good, Known
  <2> QED BY <2>1, <2>3, <2>4, <2>5 DEF Good
<1> QED BY <1>6, <1>8, <1>9 DEF IInv

LEMMA EndStep ==
    ASSUME IInv, NEW kind \in {"exit", "quit"}, NEW p \in Slots, End(kind, p) PROVE IInv'
BY PastStep DEF End

LEMMA KeepStep == ASSUME IInv, NEW p \in Slots, Keep(p) PROVE IInv'
BY PastStep DEF Keep
\* A slot whose worker was waited for is empty.
LEMMA ReapStep == ASSUME IInv, NEW p \in Slots, Reap(p) PROVE IInv'
<1>0. TypeOK
  BY DEF IInv
<1>1. /\ pid \in [Slots -> Pids \cup {0}] /\ proc \in [Pids -> ProcT]
      /\ pending \in BOOLEAN
      /\ ended \in {"no", "exit", "quit", "fork error"}
  BY <1>0, TypeParts
<1>2. pid[p] \in Pids /\ proc[pid[p]].state = "zombie"
  BY <1>1 DEF Reap
<1>3. /\ pid' = [pid EXCEPT ![p] = 0] /\ proc' = [proc EXCEPT ![pid[p]] = Free]
      /\ UNCHANGED <<frame, pending, ended, torn>>
  BY DEF Reap
<1>4. pid' \in [Slots -> Pids \cup {0}] /\ \A q \in Slots : pid'[q] = IF q = p THEN 0 ELSE pid[q]
  BY <1>1, <1>3
<1>5. proc' \in [Pids -> ProcT]
      /\ \A w \in Pids : proc'[w] = IF w = pid[p] THEN Free ELSE proc[w]
  BY <1>1, <1>2, <1>3, FreeType
<1>6. \A w \in Pids : proc'[w].state = "alive" =>
           /\ proc'[w] = proc[w]
           /\ pid[proc[w].slot] = w => pid'[proc[w].slot] = w
  <2> SUFFICES ASSUME NEW w \in Pids, proc'[w].state = "alive"
               PROVE  /\ proc'[w] = proc[w]
                      /\ pid[proc[w].slot] = w => pid'[proc[w].slot] = w
    OBVIOUS
  <2>1. w # pid[p] /\ proc'[w] = proc[w]
    BY <1>5, FreeType
  <2>2. proc[w].slot \in Slots
    BY <1>1, <2>1, FreeType DEF ProcT
  <2> QED BY <1>4, <2>1, <2>2
<1>7. \A q \in Slots : pid'[q] = pid[q] \/ pid'[q] = 0
  BY <1>4
<1>8. pending' \in BOOLEAN /\ ended' \in {"no", "exit", "quit", "fork error"}
      /\ (ended = "fork error" => ended' = "fork error")
  BY <1>1, <1>3
<1> QED BY <1>3, <1>4, <1>5, <1>6, <1>7, <1>8, SameStack

LEMMA EndedStep == ASSUME IInv, NEW kind \in {"exit", "quit"}, Ended(kind) PROVE IInv'
<1>1. /\ pid \in [Slots -> Pids \cup {0}] /\ proc \in [Pids -> ProcT] /\ pending \in BOOLEAN
  BY TypeParts DEF IInv
<1>2. UNCHANGED <<pid, proc, frame, pending, torn>> /\ ended' = kind /\ ended = "no"
  BY DEF Ended, Running
<1>3. ended' \in {"no", "exit", "quit", "fork error"} /\ ended # "fork error"
  BY <1>2
<1>4. pending' \in BOOLEAN /\ pid' \in [Slots -> Pids \cup {0}] /\ proc' \in [Pids -> ProcT]
  BY <1>1, <1>2
<1> QED BY <1>2, <1>3, <1>4, SameStack

\* A worker that dies is not alive.
LEMMA DieStep == ASSUME IInv, NEW w \in Pids, Die(w) PROVE IInv'
<1>1. /\ pid \in [Slots -> Pids \cup {0}] /\ proc \in [Pids -> ProcT]
      /\ pending \in BOOLEAN /\ ended \in {"no", "exit", "quit", "fork error"}
  BY TypeParts DEF IInv
<1>2. UNCHANGED <<pid, frame, ended, torn>> /\ proc[w].state \in {"alive", "killed"}
      /\ \/ proc' = [proc EXCEPT ![w] = Free] /\ pending' = pending
         \/ proc' = [proc EXCEPT ![w].state = "zombie"] /\ pending' = TRUE
  BY DEF Die
<1>3. pending' \in BOOLEAN
  BY <1>1, <1>2
<1>4. proc[w] \in [slot : Slots, state : {"alive", "killed", "zombie"}]
  BY <1>1, <1>2, FreeType DEF ProcT
<1> DEFINE z == [proc[w] EXCEPT !.state = "zombie"]
<1>5. z \in ProcT /\ z.state = "zombie"
  BY <1>4 DEF ProcT
<1>6. proc' = [proc EXCEPT ![w] = Free] \/ proc' = [proc EXCEPT ![w] = z]
  BY <1>2
<1> HIDE DEF z
<1>7. PICK r \in ProcT : proc' = [proc EXCEPT ![w] = r] /\ r.state # "alive"
  BY <1>5, <1>6, FreeType
<1>8. proc' \in [Pids -> ProcT] /\ \A v \in Pids : proc'[v] = IF v = w THEN r ELSE proc[v]
  BY <1>1, <1>7
<1>9. \A v \in Pids : proc'[v].state = "alive" =>
           /\ proc'[v] = proc[v]
           /\ pid[proc[v].slot] = v => pid'[proc[v].slot] = v
  BY <1>2, <1>7, <1>8
<1> QED BY <1>1, <1>2, <1>3, <1>8, <1>9, SameStack

\* The loop of SRVServerRun that follows another one.
LEMMA NextLoop ==
    ASSUME IInv, NEW kind \in {"serve", "exit"}, frame' = <<Frame(kind, 1, 0)>>,
           pending' \in BOOLEAN, UNCHANGED <<pid, proc, ended, torn>>, Top.child = 0
    PROVE  IInv'
<1> DEFINE f == Frame(kind, 1, 0)
<1>1. f \in FrameT /\ f.kind = kind /\ f.child = 0
  BY ServerAssumption DEF Frame, FrameT
<1>2. frame' = <<f>>
  OBVIOUS
<1> HIDE DEF f
<1>3. frame' \in Seq(FrameT) /\ Len(frame') = 1 /\ DOMAIN frame' = 1..1 /\ frame'[1] = f
  BY <1>1, <1>2
<1>4. Base' = f /\ Top' = f
  BY <1>3 DEF Base, Top
<1>5. Stack'
  BY <1>1, <1>3, <1>4 DEF Stack
<1>6. pid' \in [Slots -> Pids \cup {0}] /\ proc' \in [Pids -> ProcT] /\ torn' \in BOOLEAN
      /\ ended' \in {"no", "exit", "quit", "fork error"}
  BY TypeParts DEF IInv
<1>7. 1 \in Nat \ {0}
  OBVIOUS
<1>8. TypeOK'
  BY <1>3, <1>6, <1>7, TypeAgain
<1>9. ASSUME Good PROVE Good'
  <2>1. Below'
    BY <1>3 DEF Below
  <2>2. Ordered' /\ Unstarted'
    BY <1>1, <1>4 DEF Ordered, Unstarted
  <2>3. Unrecorded'
    BY <1>1, <1>4 DEF Unrecorded
  <2>4. Known'
    BY <1>9, ServerAssumption DEF Good, Known
  <2> QED BY <2>1, <2>2, <2>3, <2>4 DEF Good
<1> QED BY <1>5, <1>8, <1>9 DEF IInv

LEMMA StartedStep == ASSUME IInv, Started PROVE IInv'
<1>0. TypeOK /\ Stack
  BY DEF IInv
<1>1. frame' = <<Frame("serve", 1, 0)>> /\ UNCHANGED <<pid, proc, pending, ended, torn>>
      /\ Top.at > N
  BY DEF Started
<1>2. Top \in FrameT /\ Len(frame) \in DOMAIN frame /\ Top = frame[Len(frame)]
  BY <1>0, TopType
<1>3. Top.child = 0
  BY <1>0, <1>1, <1>2, SlotType, ServerAssumption DEF Stack
<1>4. pending \in BOOLEAN
  BY <1>0, TypeParts
<1>5. pending' \in BOOLEAN
  BY <1>1, <1>4
<1> QED BY <1>1, <1>3, <1>5, NextLoop

LEMMA StopStep == ASSUME IInv, Stop PROVE IInv'
<1>0. TypeOK /\ Stack
  BY DEF IInv
<1>1. frame' = <<Frame("exit", 1, 0)>> /\ UNCHANGED <<pid, proc, ended, torn>>
      /\ Top.kind = "serve"
  BY DEF Stop, Running
<1>2. Top \in FrameT /\ Len(frame) \in DOMAIN frame /\ Top = frame[Len(frame)]
  BY <1>0, TopType
<1>3. Top.child = 0
  BY <1>0, <1>1, <1>2 DEF Stack
<1>5. pending' \in BOOLEAN
  BY DEF Stop
<1> QED BY <1>1, <1>3, <1>5, NextLoop

\* A handler that is done has no child, and what it interrupted goes on.
LEMMA ReturnStep == ASSUME IInv, Return PROVE IInv'
<1>0. TypeOK /\ Stack
  BY DEF IInv
<1>1. /\ frame' = SubSeq(frame, 1, Len(frame) - 1)
      /\ UNCHANGED <<pid, proc, pending, ended, torn>>
      /\ Top.kind = "chld" /\ Top.at > N
  BY DEF Return, Running
<1>2. frame \in Seq(FrameT) /\ Len(frame) \in Nat \ {0} /\ DOMAIN frame = 1..Len(frame)
  BY <1>0, FrameType
<1>3. Top \in FrameT /\ Len(frame) \in DOMAIN frame /\ Top = frame[Len(frame)]
  BY <1>0, TopType
<1>4. Top.child = 0
  BY <1>0, <1>1, <1>3, SlotType, ServerAssumption DEF Stack
<1>5. Len(frame) # 1
  BY <1>0, <1>1, <1>3 DEF Stack, Base
<1>6. Len(frame) - 1 \in Nat \ {0} /\ Len(frame) - 1 \in DOMAIN frame /\ Len(frame) - 1 < Len(frame)
  BY <1>2, <1>5
<1>7. /\ frame' \in Seq(FrameT) /\ Len(frame') = Len(frame) - 1
      /\ DOMAIN frame' = 1..(Len(frame) - 1)
      /\ \A k \in 1..(Len(frame) - 1) : frame'[k] = frame[k]
  BY <1>1, <1>2, <1>6
<1>8. DOMAIN frame' \subseteq DOMAIN frame /\ \A k \in DOMAIN frame' : frame'[k] = frame[k]
  BY <1>2, <1>7
<1>9. Base' = Base
  BY <1>6, <1>7 DEF Base
<1>10. Stack'
  <2>1. \A k \in 2..Len(frame') : k \in 2..Len(frame) /\ frame'[k] = frame[k]
    BY <1>2, <1>7
  <2> QED BY <1>0, <1>8, <1>9, <2>1 DEF Stack
<1>11. /\ pid' \in [Slots -> Pids \cup {0}] /\ proc' \in [Pids -> ProcT] /\ torn' \in BOOLEAN
       /\ pending' \in BOOLEAN /\ ended' \in {"no", "exit", "quit", "fork error"}
  BY <1>0, <1>1, TypeParts
<1>12. TypeOK'
  BY <1>6, <1>7, <1>11, TypeAgain
<1>13. ASSUME Good PROVE Good'
  <2>1. \A k \in DOMAIN frame' : frame'[k].child = 0
    BY <1>2, <1>7, <1>8, <1>13 DEF Good, Below
  <2>2. Below'
    BY <2>1 DEF Below
  <2>3. Top' = frame'[Len(frame')] /\ Len(frame') \in DOMAIN frame'
    BY <1>6, <1>7 DEF Top
  <2>4. Top'.child = 0
    BY <2>1, <2>3
  <2>5. Ordered'
    BY <1>8, <1>9, <1>13 DEF Good, Ordered, Within
  <2>6. Unstarted'
    BY <1>1, <1>9, <1>13 DEF Good, Unstarted
  <2>7. Unrecorded'
    BY <2>4 DEF Unrecorded
  <2>8. Known'
    BY <1>1, <1>4, <1>13, ServerAssumption DEF Good, Known
  <2> QED BY <2>2, <2>5, <2>6, <2>7, <2>8 DEF Good
<1> QED BY <1>1, <1>10, <1>12, <1>13 DEF IInv

\* A handler that comes while nothing is unrecorded.
LEMMA CatchStep ==
    ASSUME IInv, NEW kind \in {"chld", "quit"},
           frame' = Append(frame, Frame(kind, 1, 0)),
           UNCHANGED <<pid, proc, ended>>, pending' \in BOOLEAN, torn' \in BOOLEAN,
           ~torn' => ~torn /\ (Good => Top.child = 0),
           ~torn' /\ kind = "chld" => Base.kind # "start" \/ Base.at > N
    PROVE  IInv'
<1>0. TypeOK /\ Stack
  BY DEF IInv
<1>1. /\ frame' \in Seq(FrameT) /\ Len(frame') = Len(frame) + 1 /\ Len(frame) \in Nat \ {0}
      /\ \A k \in DOMAIN frame : frame'[k] = frame[k]
      /\ Top' = Frame(kind, 1, 0)
      /\ Stack'
  BY <1>0, PushFrame
<1>2. frame \in Seq(FrameT) /\ DOMAIN frame = 1..Len(frame) /\ Top = frame[Len(frame)]
  BY <1>0, FrameType, TopType
<1>3. DOMAIN frame' = 1..(Len(frame) + 1) /\ Len(frame') \in Nat \ {0}
  BY <1>1
<1>4. Top'.child = 0 /\ Top'.kind = kind /\ Top' = frame'[Len(frame')]
  BY <1>1 DEF Frame, Top
<1>5. Base' = Base
  BY <1>1, <1>2 DEF Base
<1>6. pid' \in [Slots -> Pids \cup {0}] /\ proc' \in [Pids -> ProcT]
      /\ ended' \in {"no", "exit", "quit", "fork error"}
  BY <1>0, TypeParts
<1>7. TypeOK'
  BY <1>1, <1>3, <1>6, TypeAgain
<1>8. \A k \in DOMAIN frame' : (k \in DOMAIN frame /\ frame'[k] = frame[k]) \/ k = Len(frame')
  BY <1>1, <1>2, <1>3
<1>9. ASSUME Good, ~torn' PROVE Good'
  <2>1. Top.child = 0
    BY <1>9
  <2>2. \A k \in DOMAIN frame : frame[k].child = 0
    BY <1>1, <1>2, <1>9, <2>1 DEF Good, Below
  <2>3. Below'
    BY <1>4, <1>8, <2>2 DEF Below
  <2>4. Ordered'
    <3>1. CASE kind = "chld"
      BY <1>5, <1>9, <3>1 DEF Ordered
    <3>2. CASE kind = "quit"
      <4>1. Within("chld")' => Within("chld")
        BY <1>4, <1>8, <3>2 DEF Within
      <4> QED BY <1>5, <1>9, <4>1 DEF Good, Ordered
    <3> QED BY <3>1, <3>2
  <2>5. Unstarted'
    BY <1>5, <1>9 DEF Good, Unstarted
  <2>6. Unrecorded'
    BY <1>4 DEF Unrecorded
  <2>7. Known'
    BY <1>9, <2>1, ServerAssumption DEF Good, Known
  <2> QED BY <2>3, <2>4, <2>5, <2>6, <2>7 DEF Good
<1> QED BY <1>1, <1>7, <1>9 DEF IInv

LEMMA CatchQuitStep == ASSUME IInv, CatchQuit PROVE IInv'
<1>1. frame' = Append(frame, Frame("quit", 1, 0)) /\ UNCHANGED <<pid, proc, pending, ended>>
      /\ torn' = (torn \/ Top.child # 0)
  BY DEF CatchQuit
<1>2. pending' \in BOOLEAN /\ torn' \in BOOLEAN
  <2>1. pending \in BOOLEAN /\ torn \in BOOLEAN
    BY TypeParts DEF IInv
  <2> QED BY <1>1, <2>1
<1>3. ~torn' => ~torn /\ Top.child = 0
  BY <1>1
<1> QED BY <1>1, <1>2, <1>3, CatchStep

LEMMA CatchChildStep == ASSUME IInv, CatchChild PROVE IInv'
<1>0. TypeOK /\ Stack
  BY DEF IInv
<1>1. frame' = Append(frame, Frame("chld", 1, 0)) /\ UNCHANGED <<pid, proc, ended>>
      /\ pending' = FALSE /\ ~Within("chld")
      /\ torn' = (torn \/ Within("quit") \/ (Base.kind = "start" /\ Base.at <= N))
  BY DEF CatchChild, Base
<1>2. pending' \in BOOLEAN /\ torn' \in BOOLEAN
  <2>1. torn \in BOOLEAN
    BY <1>0, TypeParts
  <2> QED BY <1>1, <2>1 DEF Within
<1>3. Base.at \in Nat /\ N \in Nat
  BY <1>0, BaseType, ServerAssumption
<1>4. ~torn' => ~torn /\ ~(Base.kind = "start" /\ Base.at <= N)
  BY <1>1
<1>5. ~torn' => Base.kind # "start" \/ Base.at > N
  BY <1>3, <1>4
<1>6. ASSUME ~torn' PROVE Top.child = 0
  <2>1. frame \in Seq(FrameT) /\ Len(frame) \in Nat \ {0} /\ DOMAIN frame = 1..Len(frame)
    BY <1>0, FrameType
  <2>2. Top \in FrameT /\ Len(frame) \in DOMAIN frame /\ Top = frame[Len(frame)]
    BY <1>0, TopType
  <2>3. Top.kind # "chld"
    BY <1>1, <2>2 DEF Within
  <2>4. CASE Len(frame) = 1
    <3>1. Top = Base
      BY <2>2, <2>4 DEF Base
    <3>2. Top.child # 0 => Top.at \in Slots /\ Top.kind = "start"
      BY <1>0, <2>2, <2>3 DEF Stack
    <3>3. Top.at \in Slots => ~(Top.at > N)
      BY <1>3, SlotType
    <3> QED BY <1>5, <1>6, <3>1, <3>2, <3>3
  <2>5. CASE Len(frame) # 1
    <3>1. Len(frame) \in 2..Len(frame)
      BY <2>1, <2>5
    <3>2. Top.kind \in {"chld", "quit"}
      BY <1>0, <2>2, <3>1 DEF Stack
    <3> QED BY <1>0, <2>2, <2>3, <3>2 DEF Stack
  <2> QED BY <2>4, <2>5
<1> QED BY <1>1, <1>2, <1>4, <1>5, <1>6, CatchStep

-----------------------------------------------------------------------------
(* The theorems.                                                           *)

LEMMA InitInv == Init => IInv
<1> SUFFICES ASSUME Init PROVE IInv
  OBVIOUS
<1> DEFINE f == Frame("start", 1, 0)
<1>1. f \in FrameT /\ f.kind = "start" /\ f.at = 1 /\ f.child = 0
  BY ServerAssumption DEF Frame, FrameT
<1>2. frame = <<f>>
  BY DEF Init
<1> HIDE DEF f
<1>3. frame \in Seq(FrameT) /\ Len(frame) = 1 /\ DOMAIN frame = 1..1 /\ frame[1] = f
  BY <1>1, <1>2
<1>4. Base = f /\ Top = f
  BY <1>3 DEF Base, Top
<1>5. TypeOK
  <2>1. pid \in [Slots -> Pids \cup {0}] /\ proc \in [Pids -> ProcT]
    BY FreeType DEF Init
  <2>2. pending \in BOOLEAN /\ torn \in BOOLEAN /\ ended \in {"no", "exit", "quit", "fork error"}
    BY DEF Init
  <2>3. Len(frame) >= 1
    BY <1>3
  <2> QED BY <1>3, <2>1, <2>2, <2>3 DEF TypeOK
<1>6. Stack
  BY <1>1, <1>3, <1>4 DEF Stack
<1>7. Below
  BY <1>3 DEF Below
<1>8. Ordered
  BY <1>1, <1>3 DEF Ordered, Within
<1>9. Unstarted
  BY DEF Init, Unstarted
<1>10. Unrecorded
  BY <1>1, <1>4 DEF Unrecorded
<1>11. Known
  BY FreeType DEF Init, Known
<1> QED BY <1>5, <1>6, <1>7, <1>8, <1>9, <1>10, <1>11 DEF IInv, Good

LEMMA StutterStep == ASSUME IInv, UNCHANGED vars PROVE IInv'
<1>1. TypeOK'
  BY DEF IInv, TypeOK, vars
<1>2. Stack'
  BY DEF IInv, Stack, Base, vars
<1>3. ASSUME Good PROVE Good'
  <2>1. Below'
    BY <1>3 DEF Good, Below, vars
  <2>2. Ordered'
    BY <1>3 DEF Good, Ordered, Within, Base, vars
  <2>3. Unstarted'
    BY <1>3 DEF Good, Unstarted, Base, vars
  <2>4. Unrecorded'
    BY <1>3 DEF Good, Unrecorded, Top, vars
  <2>5. Known'
    BY <1>3 DEF Good, Known, Top, vars
  <2> QED BY <2>1, <2>2, <2>3, <2>4, <2>5 DEF Good
<1> QED BY <1>1, <1>2, <1>3 DEF IInv, vars

LEMMA StepInv == IInv /\ [Next]_vars => IInv'
<1> SUFFICES ASSUME IInv, [Next]_vars PROVE IInv'
  OBVIOUS
<1>1. CASE Record
  BY <1>1, RecordStep
<1>2. CASE Started
  BY <1>2, StartedStep
<1>3. CASE Return
  BY <1>3, ReturnStep
<1>4. ASSUME NEW kind \in {"exit", "quit"}, Ended(kind) PROVE IInv'
  BY <1>4, EndedStep
<1>5. ASSUME NEW kind \in {"exit", "quit"}, NEW p \in Slots, End(kind, p) PROVE IInv'
  BY <1>5, EndStep
<1>6. ASSUME NEW p \in Slots, Start(p) PROVE IInv'
  BY <1>6, StartStep
<1>7. ASSUME NEW p \in Slots, Reap(p) PROVE IInv'
  BY <1>7, ReapStep
<1>8. ASSUME NEW p \in Slots, Restart(p) PROVE IInv'
  BY <1>8, RestartStep
<1>9. ASSUME NEW p \in Slots, Keep(p) PROVE IInv'
  BY <1>9, KeepStep
<1>10. CASE Stop
  BY <1>10, StopStep
<1>11. CASE CatchChild
  BY <1>11, CatchChildStep
<1>12. CASE CatchQuit
  BY <1>12, CatchQuitStep
<1>13. ASSUME NEW w \in Pids, Die(w) PROVE IInv'
  BY <1>13, DieStep
<1>14. CASE UNCHANGED vars
  BY <1>14, StutterStep
<1> QED BY <1>1, <1>2, <1>3, <1>4, <1>5, <1>6, <1>7, <1>8, <1>9, <1>10, <1>11, <1>12,
           <1>13, <1>14 DEF Next, MainStep

\* Every reachable state has its types, a stack of one loop with handlers on it, and,
\* as long as no signal came at a bad moment and no fork failed, empty slots where a
\* worker is about to be started and every living worker in its slot or in the
\* newest frame.
THEOREM Inv == Spec => []IInv
BY InitInv, StepInv, PTL DEF Spec

LEMMA AccountedOf == IInv => Accounted
<1> SUFFICES ASSUME IInv, ~torn, ended # "fork error", NEW w \in Pids, proc[w].state = "alive"
             PROVE  pid[proc[w].slot] = w \/ \E k \in DOMAIN frame : frame[k].child = w
  BY DEF Accounted
<1>1. Good /\ TypeOK
  BY DEF IInv
<1>2. Len(frame) \in DOMAIN frame /\ Top = frame[Len(frame)]
  BY <1>1, TopType
<1> QED BY <1>1, <1>2 DEF Good, Known

\* No worker lives that the main process neither has in its slot nor is about to
\* record, so none is started twice and none outlives the server.
THEOREM AllAccounted == Spec => []Accounted
<1>1. IInv => Accounted
  BY AccountedOf
<1> QED BY <1>1, Inv, PTL
=============================================================================
