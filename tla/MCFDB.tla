------------------------------- MODULE MCFDB -------------------------------
(* One program that inserts, with one that scans and commits (MCFDBScan.cfg)  *)
(* or one that reads by rowid (MCFDBSeek.cfg).                                *)
EXTENDS FDBClients, TLC

CONSTANTS writer, reader

MCHandles == {writer, reader}
MCWriters == {writer}
ScanCalls == (writer :> {}) @@ (reader :> {"next", "commit"})
SeekCalls == (writer :> {}) @@ (reader :> {"rowid"})
=============================================================================
