-------------------------- MODULE ReadSchedulerMC --------------------------
(* Small instances of ReadScheduler for TLC.                               *)
EXTENDS ReadScheduler, TLC

CONSTANTS d1, d2, h1, h2

\* d1 has handler h1; d2 has the handler h, with the functions that are given.
Plugin(h, provides1, provides2, serial) ==
  [handler |-> (d1 :> h1 @@ d2 :> h), provides |-> (h1 :> provides1 @@ h2 :> provides2),
   disabled |-> {}, serial |-> serial]

\* A device that is read alone and one that is read in bulk, in both modes; two
\* devices in one bulk read; a device that is read, bulk reads being ignored, and
\* one that is only written; a device that is read and listened to; and one that is
\* only listened to.
Plugins ==
  {Plugin(h2, {"Read"}, {"BulkRead"}, TRUE),
   Plugin(h1, {"BulkRead"}, {}, FALSE),
   Plugin(h2, {"Read", "BulkRead"}, {}, TRUE),
   Plugin(h2, {"Read", "Listen"}, {}, FALSE),
   Plugin(h2, {"Read"}, {"Listen"}, FALSE)}
=============================================================================
