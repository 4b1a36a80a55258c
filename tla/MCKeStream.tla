----------------------------- MODULE MCKeStream -----------------------------
(* Small instances of KeStream for TLC.                                    *)
EXTENDS KeStream

\* One record of every type, the bodies that from_bytes refuses, and types
\* that are not known.
MCRecords ==
  { serialize(TRUE, EndOfMessage, <<>>),
    serialize(TRUE, EndOfMessage, <<0>>),
    serialize(TRUE, NextProtocol, <<Ntpv4>>),
    serialize(TRUE, NextProtocol, <<>>),
    serialize(TRUE, Error, <<1>>),
    serialize(TRUE, Warning, <<Dummy>>),
    serialize(TRUE, AeadAlgorithm, <<AeadAesSivCmac256>>),
    [serialize(TRUE, AeadAlgorithm, <<>>) EXCEPT !.odd = 1],
    serialize(FALSE, NewCookie, <<7>>),
    serialize(FALSE, Server, <<24930>>),
    serialize(FALSE, Server, <<51712>>),
    serialize(FALSE, Port, <<123>>),
    serialize(FALSE, 9, <<>>),
    serialize(TRUE, 9, <<>>),
    serialize(FALSE, 2^11, <<>>) }

MCRequests ==
  UNION {[1 .. n -> MCRecords] : n \in 1 .. 3} \cup {ClientRequest}

MCCookie == <<257, 258>>

=============================================================================
