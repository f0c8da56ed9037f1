------------------------- MODULE WriteSchedulerMC -------------------------
(* Small instances of WriteScheduler for TLC.                              *)
EXTENDS WriteScheduler, TLC

CONSTANTS d1, d2,     \* a device that can be written and one that cannot
          i1          \* a transaction id that several clients choose

\* The clients are interchangeable.
ClientSymmetry == Permutations(Requests)

SyncCall(ids) == [sync |-> TRUE, device |-> d1, ids |-> ids]
AsyncCall(ids) == [sync |-> FALSE, device |-> d1, ids |-> ids]

\* A WriteSync of two writes and a WriteAsync, either of which may be refused an id
\* that is in use.
MixedCalls == {SyncCall(<<NoId, i1>>), AsyncCall(<<i1>>)}

\* Single writes, one of them with an id that may be in use, and the two kinds of
\* call that are refused at once.
ShortCalls == {SyncCall(<<NoId>>), AsyncCall(<<i1>>), SyncCall(<< >>),
               [AsyncCall(<<NoId>>) EXCEPT !.device = d2]}

\* Two clients choose the same id.
SameIdCalls == {AsyncCall(<<i1>>)}
=============================================================================
