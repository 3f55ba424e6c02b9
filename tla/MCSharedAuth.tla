---------------------------- MODULE MCSharedAuth ----------------------------
(***************************************************************************)
(* Small instances of SharedAuth for TLC.                                  *)
(***************************************************************************)
EXTENDS SharedAuth, TLC

CONSTANTS s1, s2, w1, w2, client

\* Both sessions belong to one client, so that one may replace the other.
MCClientOf == [s \in Sessions |-> client]

\* Workers are interchangeable, and so are the sessions of the one client.
MCSymmetry == Permutations(Workers) \cup Permutations(Sessions)

=============================================================================
