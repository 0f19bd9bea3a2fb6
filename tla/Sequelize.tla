----------------------------- MODULE Sequelize -----------------------------
(***************************************************************************)
(* What the handlers use of the ORM. A handler reads a row into an         *)
(* instance, awaits, and calls instance.update with values; the values     *)
(* that differ from what the instance holds are written to the row, and no *)
(* others. A row and an instance are records over the same fields.         *)
(***************************************************************************)

\* Mutant: every value is written, the unchanged ones over what the row has since become.
Saved_EveryField(row, read, values) == [f \in DOMAIN row |-> values[f]]

\* instance.update: the values that differ from the reading are written.
Saved(row, read, values) ==
    [f \in DOMAIN row |-> IF values[f] = read[f] THEN row[f] ELSE values[f]]

=============================================================================
