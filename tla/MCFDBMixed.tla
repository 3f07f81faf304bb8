----------------------------- MODULE MCFDBMixed -----------------------------
(* One program makes every cursor call of hfdb.h through one cursor. *)
EXTENDS FDB, TLC

CONSTANTS h

MCHandles == {h}
MCCalls   == h :> {"next", "rowid", "commit"}
=============================================================================
