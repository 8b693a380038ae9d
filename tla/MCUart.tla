------------------------------- MODULE MCUart -------------------------------
(* Uart for TLC: the CLI task reads, writes and flushes, the button task    *)
(* only writes.                                                             *)
EXTENDS Uart, TLC

CONSTANTS cli, button, a, b, c

MCTexts    == (cli :> {<<a, b>>}) @@ (button :> {<<c>>})
MCOneText  == (cli :> {}) @@ (button :> {<<c>>})
MCNoReads  == (cli :> {}) @@ (button :> {})
MCReadLens == (cli :> {1, 2}) @@ (button :> {})

=============================================================================
