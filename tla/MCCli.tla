------------------------------- MODULE MCCli -------------------------------
(* Cli for TLC: one letter, so that words differ by their length alone, and *)
(* two commands of one name.                                                *)
EXTENDS Cli

CONSTANTS x, h1, h2

MCHelp     == [name |-> <<x, x>>, handler |-> h1]
MCNumbers  == {-305, 0, 10, 2147483647}
MCCommands == {MCHelp, [name |-> <<x>>, handler |-> h1], [name |-> <<x>>, handler |-> h2]}

=============================================================================
