--------------------------- MODULE MCMuxLifecycle ---------------------------
(* Instances of MuxLifecycle for TLC. *)
EXTENDS MuxLifecycle, TLC

\* The requests that tie clients to devices or to their comings and goings.
ConnectAndListen == {m \in Command : m.op \in {"CONNECT", "LISTEN"}}
ConnectOnly      == {m \in Command : m.op = "CONNECT"}

\* Client structures are interchangeable; so are device ids, but for the order in
\* which they are given out, which nothing here depends on.
Symmetry == Permutations(Clients) \cup Permutations(Devices)
=============================================================================
