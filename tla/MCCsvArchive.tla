---------------------------- MODULE MCCsvArchive ----------------------------
(* An instance of CsvArchive for TLC. The two days are interchangeable.    *)
EXTENDS CsvArchive, TLC

CONSTANTS d1, d2
TwoDays == {d1, d2}
Symmetry == Permutations(TwoDays)
=============================================================================
