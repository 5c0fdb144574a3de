---------------------------- MODULE MCRequestLog ----------------------------
(* Enough events for two rotations with a restart in between: a threshold of *)
(* one line makes nearly every write rotate or wait for <path>.1.  Of the    *)
(* three inode numbers the third is the one that comes back.                 *)
EXTENDS RequestLog

(* Once the file system has misled the code no property says anything more: *)
(* the search ends there.  Every behaviour that never gets there is explored *)
(* whole, which is what the temporal property needs.                         *)
Unlapsed == ~lapsed
=============================================================================
