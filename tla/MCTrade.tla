------------------------------- MODULE MCTrade -------------------------------
(***************************************************************************)
(* A trade for TLC, in the scenarios one run or another lets happen.  No   *)
(* symmetry is declared, as the instances are small without it.            *)
(***************************************************************************)
EXTENDS Trade

CONSTANTS t1, t2

\* Two takers, so that the maker prefers one and rejects the other, and a
\* shutdown of any node.
Stopping == [careful |-> TRUE, failures |-> TRUE, stops |-> 1, crashes |-> 0,
             takers |-> {t1, t2}, strangers |-> {}]

\* Users who call anything at any time.
Careless == [careful |-> FALSE, failures |-> TRUE, stops |-> 0, crashes |-> 0,
             takers |-> {t1}, strangers |-> {}]

\* A crash of either side between any two writes of any file.
Crashing == [careful |-> TRUE, failures |-> TRUE, stops |-> 0, crashes |-> 1,
             takers |-> {t1}, strangers |-> {}]

\* Two shutdowns, of both sides or twice of one, and calls that succeed.
Restarting == [careful |-> TRUE, failures |-> FALSE, stops |-> 2, crashes |-> 0,
             takers |-> {t1}, strangers |-> {}]

\* A crash, and calls that succeed.
CrashingOnly == [careful |-> TRUE, failures |-> FALSE, stops |-> 0, crashes |-> 1,
             takers |-> {t1}, strangers |-> {}]

\* One side runs another program; a shutdown, after which it is heard again.
Meeting(n) == [careful |-> TRUE, failures |-> FALSE, stops |-> 1, crashes |-> 0,
               takers |-> {t1}, strangers |-> {n}]

MCFaults == {Stopping, Careless, Crashing, Meeting(Maker), Meeting(t1)}
MCLive == {Restarting, Meeting(Maker), Meeting(t1)}
MCCrash == {CrashingOnly}
=============================================================================
