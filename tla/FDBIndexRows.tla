---------------------------- MODULE FDBIndexRows ----------------------------
(***************************************************************************)
(* What the sort that fills an index file (FDBIndexSort) and the query     *)
(* that searches it (FDBIndex) have in common: the keys of its rows and    *)
(* the order they lie in, src/vTeam/c/db/hfdb_index.h.                     *)
(***************************************************************************)
EXTENDS Integers, Sequences

CONSTANTS
    Keys,       (* the values of the indexed properties, compared as one   *)
    MaxLen      (* bound: rows of the index                                *)

ASSUME FDBIndexRowsAssumption == Keys \subseteq Int /\ MaxLen \in Nat

VARIABLE mode   (* the order the rows are sorted in and searched by        *)

Modes == {"asc", "desc"}
Precedes(k1, k2) == IF mode = "asc" THEN k1 < k2 ELSE k2 < k1

\* The keys s are in order; what an index file may hold.
Sorted(s) == \A i, j \in DOMAIN s : i < j => ~Precedes(s[j], s[i])
IndexFile(s) == s \in UNION {[1..n -> Keys] : n \in 0..MaxLen} /\ Sorted(s)
=============================================================================
