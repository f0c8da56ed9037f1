---------------------------- MODULE ReadStreamMC ----------------------------
(* Small instances of ReadStream for TLC.                                  *)
EXTENDS ReadStream

CONSTANTS d1, d2

\* No selector, and a selector for one of the two devices.
MCFilters == {{}, {d1}}

NoFilter == {{}}
=============================================================================
