---------------------------- MODULE MCRowHammer ----------------------------
EXTENDS RowHammer

\* Placeholders of the table: row numbers no row has.
SmallSpares == {100, 101}
=============================================================================
