--------------------------- MODULE MCWriteSafety ---------------------------
(***************************************************************************)
(* Small instances of WriteSafety for TLC.                                 *)
(***************************************************************************)
EXTENDS WriteSafety, TLC

CONSTANTS r1, r2, r3, k1

Write(company, payload, key) ==
    [company |-> company, payload |-> payload, key |-> key, dry_run |-> FALSE,
     reserved_field |-> FALSE, permitted |-> TRUE, capable |-> TRUE]

\* The write two clients contend for, and the same key with another payload.
Contended == {Write(1, "a", k1), Write(1, "b", k1)}

\* That, a preview of it, and one without the key a write must have.
ContendedAndSeen ==
    Contended \cup {[Write(1, "a", k1) EXCEPT !.dry_run = TRUE], Write(1, "a", NoKey)}

\* Calls that must stop before the reservation.
Refused ==
    {[Write(1, "a", k1) EXCEPT !.dry_run = TRUE],
     [Write(1, "a", k1) EXCEPT !.reserved_field = TRUE],
     [Write(1, "a", k1) EXCEPT !.capable = FALSE],
     [Write(1, "a", k1) EXCEPT !.permitted = FALSE],
     Write(2, "a", k1), Write(1, "a", NoKey)}

MCCommands == Contended \cup Refused
MCAllowedCompanies == {1}
MCCompanies == {1, 2}
MCPayloads == {"a", "b"}

Symmetry == Permutations(Requests)

=============================================================================
