------------------------------ MODULE JsonRows ------------------------------
(***************************************************************************)
(* The text that MySqlClient::ExecuteQuery and OrcaleClient::ExecuteQuery  *)
(* build from the rows of a result, as a sequence of tokens.  A row is the *)
(* sequence of its cells; the token of cell i is <<i, cell>>.              *)
(***************************************************************************)
EXTENDS Integers, Sequences, SequencesExt

CONSTANTS
  Null,   \* a NULL cell
  Empty   \* the empty string

\* A NULL cell is written as the empty string.
Cell(row, i) == <<i, IF row[i] = Null THEN Empty ELSE row[i]>>

\* Mutant: the last comma of a row is not erased.
RowTextComma(row) ==
  <<"{">> \o FlattenSeq([i \in DOMAIN row |-> <<Cell(row, i), ",">>]) \o <<"}", ",">>

\* "{", the cells, each followed by a comma of which the last is erased, "},".
RowText(row) ==
  Front(<<"{">> \o FlattenSeq([i \in DOMAIN row |-> <<Cell(row, i), ",">>])) \o <<"}", ",">>

\* The array before its last character is erased.
Rows(rows) == <<"[">> \o FlattenSeq([r \in DOMAIN rows |-> RowText(rows[r])])

\* The finished array; "[]" is special: without rows the erased character is
\* the opening bracket.
ArrayText(rows) ==
  IF rows = <<>> THEN <<"[", "]">> ELSE Front(Rows(rows)) \o <<"]">>

(***************************************************************************)
(* Reference: the JSON array of the rows, by position.                     *)
(***************************************************************************)
Object(row) ==
  [p \in 1..(2 * Len(row) + 1) |->
     IF p = 1 THEN "{" ELSE IF p = 2 * Len(row) + 1 THEN "}"
     ELSE IF p % 2 = 0 THEN Cell(row, p \div 2) ELSE ","]

Json(rows) ==
  LET columns == Len(rows[1])
      width == 2 * columns + 2
  IN  IF rows = <<>> THEN <<"[", "]">>
      ELSE [p \in 1..(width * Len(rows) + 1) |->
              IF p = 1 THEN "[" ELSE IF p = width * Len(rows) + 1 THEN "]"
              ELSE IF (p - 1) % width = 0 THEN ","
              ELSE Object(rows[((p - 1) \div width) + 1])[(p - 1) % width]]
=============================================================================
