----------------------------- MODULE MCTcpSock -----------------------------
\* Instances of TcpSock for TLC: everything but late answers together, the
\* largest environments of each property within that, and late answers (which
\* multiply the states) with a part of the rest.
EXTENDS TcpSock

Patient == {"cached", "unknown", "reset", "abort", "nomem", "message", "ending"}

MCEnvs == {Patient, Patient \ {"ending"}, Patient \ {"reset", "abort"}, Patient \ {"nomem"},
           Patient \ {"message"}, {"reset", "nomem", "message"},
           {"unknown", "reset", "abort", "nomem"},
           {"late", "reset", "abort"}, {"late", "nomem", "message"}}
=============================================================================
