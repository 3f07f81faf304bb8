------------------------------ MODULE FDBScan ------------------------------
(***************************************************************************)
(* What a scan of an FDB table promises, with no window, no lock and no    *)
(* file: the table is a sequence of row identities that only grows, and a  *)
(* scan examines it front to back, each row once, until it has met them    *)
(* all.  Committing a row never changes which row it is, so it is no step  *)
(* of this specification.                                                  *)
(***************************************************************************)
EXTENDS Integers, Sequences

CONSTANTS Scanners

VARIABLES
    table,      (* the rowids of the stored rows, in file order            *)
    pos,        (* pos[s]: how many rows the scan has examined             *)
    ret         (* ret[s]: the outcome of its last examination             *)

avars == <<table, pos, ret>>

Nothing == [kind |-> "none", id |-> -1]
Done    == [kind |-> "end", id |-> -1]
Failed  == [kind |-> "fail", id |-> -1]

Init ==
    /\ table = <<>>
    /\ pos = [s \in Scanners |-> 0]
    /\ ret = [s \in Scanners |-> Nothing]

\* Rows are added at the end; the ones there keep their place and identity.
Grow ==
    /\ Len(table) <= Len(table')
    /\ \A i \in 1..Len(table) : table'[i] = table[i]
    /\ UNCHANGED <<pos, ret>>

\* The next row is handed out, or refused by the filter.
Examine(s) ==
    /\ pos[s] < Len(table)
    /\ pos' = [pos EXCEPT ![s] = @ + 1]
    /\ \E kind \in {"row", "skip"} :
        ret' = [ret EXCEPT ![s] = [kind |-> kind, id |-> table[pos[s] + 1]]]
    /\ UNCHANGED table

\* A scan ends only when no row is left unexamined.
Finish(s) ==
    /\ pos[s] = Len(table)
    /\ ret' = [ret EXCEPT ![s] = Done]
    /\ UNCHANGED <<table, pos>>

\* The table could not be read; the scan keeps its place.
Fail(s) ==
    /\ ret' = [ret EXCEPT ![s] = Failed]
    /\ UNCHANGED <<table, pos>>

Restart(s) ==
    /\ pos' = [pos EXCEPT ![s] = 0]
    /\ ret' = [ret EXCEPT ![s] = Nothing]
    /\ UNCHANGED table

\* The table is created anew while nobody scans it.
Recreate ==
    /\ \A s \in Scanners : pos[s] = 0 /\ ret[s] = Nothing
    /\ table' = <<>>
    /\ UNCHANGED <<pos, ret>>

Next ==
    \/ Grow
    \/ Recreate
    \/ \E s \in Scanners : Examine(s) \/ Finish(s) \/ Fail(s) \/ Restart(s)

Spec == Init /\ [][Next]_avars
=============================================================================
