--------------------------- MODULE ServerProcesses ---------------------------
(***************************************************************************)
(* hserver.c: a server that forks a worker for each of its slots and       *)
(* starts it again from the handler of SIGCHLD when it has died.  A signal *)
(* interrupts the main process between any two of its steps; while a       *)
(* handler runs only its own signal waits, and signals of one kind that    *)
(* wait are one.                                                           *)
(***************************************************************************)
EXTENDS Integers, Sequences

CONSTANTS
    N,           (* slots: config.process.length                           *)
    Pids,        (* process ids; one is used again when it was waited for  *)
    Refusing     (* slots whose create callback may refuse                 *)

Slots == 1..N

ASSUME ServerAssumption ==
    /\ N \in Nat \ {0}
    /\ Pids \subseteq Nat \ {0}
    /\ Refusing \subseteq Slots

VARIABLES
    pid,         (* pid[p]: the worker the main process knows of, or 0     *)
    proc,        (* proc[w]: the slot of worker w and its state            *)
    frame,       (* what the main process runs, the newest handler last    *)
    pending,     (* SIGCHLD waits                                          *)
    ended,       (* how the main process ended                             *)
    torn         (* ghost: a signal came at a bad moment                   *)

vars == <<pid, proc, frame, pending, ended, torn>>

\* A loop over the slots: at slot i, with a child that is not recorded yet.
Frame(kind, i, child) == [kind |-> kind, at |-> i, child |-> child]

Free == [slot |-> 0, state |-> "free"]

Init ==
    /\ pid = [p \in Slots |-> 0]
    /\ proc = [w \in Pids |-> Free]
    /\ frame = <<Frame("start", 1, 0)>>
    /\ pending = FALSE
    /\ ended = "no"
    /\ torn = FALSE

-----------------------------------------------------------------------------
Top == frame[Len(frame)]
Running(kind) == ended = "no" /\ Top.kind = kind
Within(kind) == \E k \in DOMAIN frame : frame[k].kind = kind

At(kind, p) == Running(kind) /\ Top.at = p /\ Top.child = 0

\* The loop of the running frame goes on with slot i.
Loop(i, child) == frame' = [frame EXCEPT ![Len(frame)] = Frame(@.kind, i, child)]

\* SVRServerRunProcess up to fork: create may refuse, and a fork that fails ends
\* the main process on the spot.
RunProcess(p) ==
    \/ /\ p \in Refusing
       /\ Loop(p + 1, 0)
       /\ UNCHANGED <<proc, ended>>
    \/ \E w \in Pids :
          /\ proc[w] = Free
          /\ proc' = [proc EXCEPT ![w] = [slot |-> p, state |-> "alive"]]
          /\ Loop(p, w)
          /\ UNCHANGED ended
    \/ /\ ended' = "fork error"
       /\ UNCHANGED <<proc, frame>>

\* process->pid = pid.
Record ==
    /\ ended = "no" /\ Top.child # 0
    /\ pid' = [pid EXCEPT ![Top.at] = Top.child]
    /\ Loop(Top.at + 1, 0)
    /\ UNCHANGED <<proc, pending, ended, torn>>

\* Mutant of Kill: the loop forgets the worker and lets it live.
KillNot(p) == pid' = [pid EXCEPT ![p] = 0] /\ proc' = proc

\* kill with SIGKILL, which nothing survives, and waitpid, which does not wait: the
\* main process is told later of a worker that still has to die.
Kill(p) ==
    /\ pid' = [pid EXCEPT ![p] = 0]
    /\ proc' = [proc EXCEPT ![pid[p]] = IF @.state = "alive" THEN [@ EXCEPT !.state = "killed"]
                                       ELSE IF @.state = "zombie" THEN Free ELSE @]

-----------------------------------------------------------------------------
(* SRVServerRun.                                                           *)

Start(p) ==
    /\ At("start", p)
    /\ RunProcess(p)
    /\ UNCHANGED <<pid, pending, torn>>

Started ==
    /\ Running("start") /\ Top.at > N
    /\ frame' = <<Frame("serve", 1, 0)>>
    /\ UNCHANGED <<pid, proc, pending, ended, torn>>

\* select fails, with its input closed; the command to exit is never read, since
\* the descriptor the loop tests is not in the set it waits for.
Stop ==
    /\ Running("serve")
    /\ frame' = <<Frame("exit", 1, 0)>>
    /\ pending' = FALSE
    /\ UNCHANGED <<pid, proc, ended, torn>>

\* The loops of SRVServerRun and of the handler that end the server.
End(kind, p) ==
    /\ At(kind, p)
    /\ IF pid[p] # 0 THEN Kill(p) ELSE UNCHANGED <<pid, proc>>
    /\ Loop(p + 1, 0)
    /\ UNCHANGED <<pending, ended, torn>>

Ended(kind) ==
    /\ Running(kind) /\ Top.at > N
    /\ ended' = kind
    /\ UNCHANGED <<pid, proc, frame, pending, torn>>

-----------------------------------------------------------------------------
(* SVRServerSIGProcessQuit.                                                *)

\* Mutant of Reap: the worker is not started again.
ReapOnly(p) ==
    /\ At("chld", p)
    /\ pid[p] # 0 /\ proc[pid[p]].state = "zombie"
    /\ pid' = [pid EXCEPT ![p] = 0]
    /\ proc' = [proc EXCEPT ![pid[p]] = Free]
    /\ Loop(p + 1, 0)
    /\ UNCHANGED <<pending, ended, torn>>

\* waitpid finds the worker of the slot dead.
Reap(p) ==
    /\ At("chld", p)
    /\ pid[p] # 0 /\ proc[pid[p]].state = "zombie"
    /\ pid' = [pid EXCEPT ![p] = 0]
    /\ proc' = [proc EXCEPT ![pid[p]] = Free]
    /\ UNCHANGED <<frame, pending, ended, torn>>

Restart(p) ==
    /\ At("chld", p)
    /\ pid[p] = 0
    /\ RunProcess(p)
    /\ UNCHANGED <<pid, pending, torn>>

\* Mutant of Keep: a worker that has not died yet is started once more.
KeepNot(p) ==
    /\ At("chld", p)
    /\ pid[p] # 0 /\ proc[pid[p]].state # "zombie"
    /\ RunProcess(p)
    /\ UNCHANGED <<pid, pending, torn>>

Keep(p) ==
    /\ At("chld", p)
    /\ pid[p] # 0 /\ proc[pid[p]].state # "zombie"
    /\ Loop(p + 1, 0)
    /\ UNCHANGED <<pid, proc, pending, ended, torn>>

Return ==
    /\ Running("chld") /\ Top.at > N
    /\ frame' = SubSeq(frame, 1, Len(frame) - 1)
    /\ UNCHANGED <<pid, proc, pending, ended, torn>>

\* The signal of a child: ignored once the server stops, and bad before all slots
\* are started, or while the server is being killed.
CatchChild ==
    /\ ended = "no" /\ pending
    /\ ~Within("chld") /\ ~Within("exit")
    /\ frame' = Append(frame, Frame("chld", 1, 0))
    /\ pending' = FALSE
    /\ torn' = (torn \/ Within("quit") \/ (frame[1].kind = "start" /\ frame[1].at <= N))
    /\ UNCHANGED <<pid, proc, ended>>

\* SIGINT or SIGTERM, bad while a child is not recorded.  The other one of the two
\* may come on top of it, does the same and is left out.
CatchQuit ==
    /\ ended = "no" /\ ~Within("quit")
    /\ frame' = Append(frame, Frame("quit", 1, 0))
    /\ torn' = (torn \/ Top.child # 0)
    /\ UNCHANGED <<pid, proc, pending, ended>>

-----------------------------------------------------------------------------
\* A worker leaves its loop, crashes or is killed.
Die(w) ==
    /\ proc[w].state \in {"alive", "killed"}
    /\ IF ended # "no" \/ Within("exit")
       THEN proc' = [proc EXCEPT ![w] = Free] /\ pending' = pending
       ELSE proc' = [proc EXCEPT ![w].state = "zombie"] /\ pending' = TRUE
    /\ UNCHANGED <<pid, frame, ended, torn>>

MainStep ==
    \/ Record \/ Started \/ Return
    \/ \E kind \in {"exit", "quit"} : Ended(kind) \/ \E p \in Slots : End(kind, p)
    \/ \E p \in Slots : Start(p) \/ Reap(p) \/ Restart(p) \/ Keep(p)

Next == MainStep \/ Stop \/ CatchChild \/ CatchQuit \/ \E w \in Pids : Die(w)

Spec == Init /\ [][Next]_vars

\* The main process runs, and a signal that waits and is not blocked is delivered.
FairSpec == Spec /\ WF_vars(MainStep) /\ WF_vars(CatchChild)

-----------------------------------------------------------------------------
FrameT ==
    [kind : {"start", "serve", "exit", "chld", "quit"}, at : 1..(N + 1),
     child : Pids \cup {0}]

ProcT == [slot : Slots, state : {"alive", "killed", "zombie"}] \cup {Free}

TypeOK ==
    /\ pid \in [Slots -> Pids \cup {0}]
    /\ proc \in [Pids -> ProcT]
    /\ frame \in Seq(FrameT) /\ Len(frame) >= 1
    /\ pending \in BOOLEAN /\ torn \in BOOLEAN
    /\ ended \in {"no", "exit", "quit", "fork error"}

\* The main process knows every living worker or is about to: no slot has two, and
\* none outlives the server.  Not so if a child died before all slots were started,
\* if the server was told to quit before it had recorded a child, or if a child
\* died, as it does when it is killed, while it was quitting; nor when a fork failed.
Accounted ==
    ~torn /\ ended # "fork error" =>
        \A w \in Pids : proc[w].state = "alive" =>
            pid[proc[w].slot] = w \/ \E k \in DOMAIN frame : frame[k].child = w

Down(p) == ended = "no" /\ pid[p] # 0 /\ proc[pid[p]].state = "zombie"

\* A slot whose worker died gets another one, though the signals of several deaths
\* may be one and come while the handler is already past the slot.
Replaced ==
    \A p \in Slots \ Refusing :
        Down(p) ~> \/ \E w \in Pids : proc[w] = [slot |-> p, state |-> "alive"]
                   \/ ended # "no" \/ Within("exit") \/ Within("quit") \/ torn
=============================================================================
