---------------------------- MODULE MCRotatorLock ---------------------------
(* A small instance of RotatorLock for TLC.                                *)
EXTENDS RotatorLock

\* The NTP server with a lock that prefers readers, and the NTS-KE server with
\* either kind of lock.
MCBuilds ==
  { [nested |-> TRUE, writerFirst |-> FALSE],
    [nested |-> FALSE, writerFirst |-> FALSE],
    [nested |-> FALSE, writerFirst |-> TRUE] }

=============================================================================
