----------------------------- MODULE MCLogTailer -----------------------------
(* Small instances of LogTailer for TLC.                                   *)
EXTENDS LogTailer

AlsoRemoved == {"replace", "remove"}
AlsoTruncated == {"replace", "remove", "truncate"}
=============================================================================
