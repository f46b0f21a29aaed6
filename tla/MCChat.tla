-------------------------------- MODULE MCChat --------------------------------
(* Requests for the runs of ChatServer.                                       *)
EXTENDS ChatServer, TLC

Ask(k)      == [kind |-> k, name |-> 0, pos |-> 0]
Name(k, ns) == [kind : {k}, name : ns, pos : {0}]

\* Every handler (F goes through the steps of M); the names of M and R are of the
\* two that a client may have or take.
AllRequests == Name("N", {1, 2}) \cup Name("M", {2}) \cup Name("R", {1})
               \cup {Ask(k) : k \in {"W", "L", "C", "Q", "B"}}

\* What may be left of a message reads like a rename.
LeftRequests == Name("N", {2})

\* What the connections may ask for in the runs on arrivals and renames.
RenameRequests == Name("N", {2}) \cup {Ask("Q")}

QuitRequests == {Ask("Q")}

Symmetry == Permutations(Conns)
===============================================================================
