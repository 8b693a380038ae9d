--------------------------------- MODULE Cli ---------------------------------
(***************************************************************************)
(* core/cli.c: line editing, tokenizer, table of commands and dispatch,    *)
(* and the conversions of cli_printf.  Keys are what the receive ring      *)
(* hands out (ByteFifo); an action is one turn of cli_task_entry's loop.   *)
(* A key that the loop ignores, and the sleep when there is none, change   *)
(* nothing and are no actions.  The transmit ring may be full and cut any  *)
(* output, and another task may print at any time: the terminal's current  *)
(* line, after the prompt, is then GARBLED until the next whole line.      *)
(***************************************************************************)
EXTENDS Integers, Sequences, FiniteSets, SequencesExt

CONSTANTS
  CLI_MAX_LINE_LEN, CLI_MAX_ARGS, CLI_MAX_CMDS,
  Letters, SP, NUL,     \* printable characters but the space, the space, '\0'
  Commands, help_cmd,   \* what is registered, and the built-in: [name, handler]
  Numbers,              \* what other tasks print
  GARBLED, NONE

ASSUME LimitsAssumption ==
  /\ CLI_MAX_LINE_LEN \in Nat \ {0} /\ CLI_MAX_ARGS \in Nat \ {0} /\ CLI_MAX_CMDS \in Nat \ {0}
  /\ help_cmd \in Commands /\ Numbers \subseteq Int
ASSUME CharactersAssumption == SP \notin Letters /\ NUL \notin Letters /\ SP # NUL

VARIABLES
  line_buffer, line_pos,
  commands,             \* the first cmd_count entries of the table
  screen,               \* what the terminal shows of the line being typed
  argv, ran,            \* of the line just entered: its arguments, the command that ran
  printed               \* the number just printed by another task, and its text

vars == <<line_buffer, line_pos, commands, screen, argv, ran, printed>>

Printable == Letters \union {SP}

Init ==
  /\ line_buffer = [i \in 0 .. CLI_MAX_LINE_LEN - 1 |-> NUL] /\ line_pos = 0
  /\ commands = <<help_cmd>>
  /\ screen = <<>>
  /\ argv = <<>> /\ ran = NONE /\ printed = NONE

-----------------------------------------------------------------------------
(* cli_printf: %d, %u and %x.  A character is its code.                    *)

DIGIT_BUFF == 12
Digit(d)   == (IF d < 10 THEN 48 ELSE 97) + d

\* do { ... } while(n > 0 && i < 12), least digit first, then reversed.
Mut_DigitStep(acc, base) ==                \* mutant: while in place of do-while
  IF acc.n = 0 THEN acc
  ELSE [n |-> acc.n \div base, text |-> <<Digit(acc.n % base)>> \o acc.text]
DigitStep(acc, base) ==
  IF acc.n = 0 /\ acc.text # <<>> THEN acc
  ELSE [n |-> acc.n \div base, text |-> <<Digit(acc.n % base)>> \o acc.text]

Digits(n, base) ==
  LET turn[i \in 0 .. DIGIT_BUFF] ==
        IF i = 0 THEN [n |-> n, text |-> <<>>] ELSE DigitStep(turn[i - 1], base)
  IN  turn[DIGIT_BUFF].text

Decimal(n) == IF n < 0 THEN <<45>> \o Digits(-n, 10) ELSE Digits(n, 10)

-----------------------------------------------------------------------------
(* The terminal                                                            *)

\* puts: whole, or cut by a full ring.
Puts(shown) ==
  screen' \in {IF screen = GARBLED THEN GARBLED ELSE shown, GARBLED}

\* cli_printf in another task.
OtherPrints(n) ==
  /\ printed' = [number |-> n, text |-> Decimal(n)]
  /\ screen' = GARBLED
  /\ UNCHANGED <<line_buffer, line_pos, commands, argv, ran>>

-----------------------------------------------------------------------------
(* cli_tokenize                                                            *)

\* One character: a space becomes '\0', the first letter after one starts a token,
\* and nothing is looked at once there are CLI_MAX_ARGS tokens.
TokenStep(buf, acc, i) ==
  IF Len(acc.starts) = CLI_MAX_ARGS THEN acc
  ELSE IF buf[i] = SP THEN [acc EXCEPT !.line[i] = NUL, !.is_token = FALSE]
  ELSE [acc EXCEPT !.starts = IF acc.is_token THEN @ ELSE Append(@, i), !.is_token = TRUE]

\* The C string at i.
EndOf(buf, i)  == CHOOSE j \in DOMAIN buf : j >= i /\ buf[j] = NUL /\ \A k \in i .. j - 1 : buf[k] # NUL
CString(buf, i) == [k \in 1 .. EndOf(buf, i) - i |-> buf[i + k - 1]]

Tokenize(buf) ==
  LET scan[i \in 0 .. EndOf(buf, 0)] ==
        IF i = 0 THEN [line |-> buf, starts |-> <<>>, is_token |-> FALSE]
        ELSE TokenStep(buf, scan[i - 1], i - 1)
  IN  scan[EndOf(buf, 0)]

-----------------------------------------------------------------------------
(* Commands                                                                *)

\* The first entry of a name.
Matches(name) == {i \in DOMAIN commands : commands[i].name = name}
First(name)   == CHOOSE i \in Matches(name) : \A j \in Matches(name) : i <= j

cli_register_command(cmd) ==
  /\ Len(commands) < CLI_MAX_CMDS
  /\ commands' = Append(commands, cmd)
  /\ UNCHANGED <<line_buffer, line_pos, screen, argv, ran>>

\* The last entry takes the place of the one removed.
Mut_Removed(table, i) == Front(table)      \* mutant: the last entry is not moved
Removed(table, i)     == Front([table EXCEPT ![i] = Last(table)])

cli_unregister_command(name) ==
  /\ Matches(name) # {}
  /\ commands' = Removed(commands, First(name))
  /\ UNCHANGED <<line_buffer, line_pos, screen, argv, ran>>

-----------------------------------------------------------------------------
(* cli_task_entry                                                          *)

Mut_HasRoom == line_pos < CLI_MAX_LINE_LEN     \* mutant: no place for the terminator
HasRoom     == line_pos < CLI_MAX_LINE_LEN - 1

Type(c) ==
  /\ HasRoom
  /\ line_buffer' = [line_buffer EXCEPT ![line_pos] = c]
  /\ line_pos' = line_pos + 1
  /\ Puts(Append(screen, c))
  /\ argv' = <<>> /\ ran' = NONE
  /\ UNCHANGED commands

\* Backspace and DEL.
Erase ==
  /\ line_pos > 0
  /\ line_pos' = line_pos - 1
  /\ Puts(Front(screen))
  /\ argv' = <<>> /\ ran' = NONE
  /\ UNCHANGED <<line_buffer, commands>>

Mut_Terminated == line_buffer              \* mutant: the line is not terminated
Terminated     == [line_buffer EXCEPT ![line_pos] = NUL]

Mut_NextPos == line_pos                    \* mutant: the buffer is not reset
NextPos     == 0

\* Enter: what handlers and messages print ends in a new line, then the prompt.
cli_process_cmd ==
  LET tokens == Tokenize(Terminated)
      args   == [k \in DOMAIN tokens.starts |-> CString(tokens.line, tokens.starts[k])]
  IN
  /\ line_buffer' = tokens.line
  /\ line_pos' = NextPos
  /\ argv' = args
  /\ ran' = IF args = <<>> \/ Matches(args[1]) = {} THEN NONE ELSE commands[First(args[1])]
  /\ screen' \in {<<>>, GARBLED}
  /\ UNCHANGED commands

CliStep ==
  \/ \E c \in Printable : Type(c)
  \/ Erase
  \/ cli_process_cmd
  \/ \E cmd \in Commands : cli_register_command(cmd)
  \/ \E name \in {cmd.name : cmd \in Commands} : cli_unregister_command(name)

Next ==
  \/ CliStep /\ printed' = NONE
  \/ \E n \in Numbers : OtherPrints(n)

Spec == Init /\ [][Next]_vars

-----------------------------------------------------------------------------
(* Properties                                                              *)

\* Types; the line stays inside line_buffer, with room for its terminator.
CliTypeOK ==
  /\ line_buffer \in [0 .. CLI_MAX_LINE_LEN - 1 -> Printable \union {NUL}]
  /\ line_pos \in 0 .. CLI_MAX_LINE_LEN - 1
  /\ commands \in Seq(Commands) /\ Len(commands) <= CLI_MAX_CMDS
  /\ screen = GARBLED \/ screen \in Seq(Printable)
  /\ \A k \in DOMAIN argv : argv[k] \in Seq(Printable)
  /\ ran \in Commands \union {NONE}

Line == [k \in 1 .. line_pos |-> line_buffer[k - 1]]

\* What the terminal shows is what will be entered, after any sequence of keys,
\* erasures and lines, as long as no output was cut or came between.
EchoAgrees == screen # GARBLED => screen = Line

\* The words of a line: from a letter that no letter precedes to the next space.
WordStarts(line) == {i \in DOMAIN line : line[i] # SP /\ (i = 1 \/ line[i - 1] = SP)}
WordAt(line, i)  ==
  LET spaces == {j \in DOMAIN line : j > i /\ line[j] = SP}
  IN  SubSeq(line, i, IF spaces = {} THEN Len(line)
                      ELSE (CHOOSE j \in spaces : \A k \in spaces : j <= k) - 1)
NthStart(line, n) ==
  CHOOSE i \in WordStarts(line) : Cardinality({j \in WordStarts(line) : j <= i}) = n
Args(line) ==
  LET words == Cardinality(WordStarts(line))
  IN  [n \in 1 .. IF words < CLI_MAX_ARGS THEN words ELSE CLI_MAX_ARGS |->
         IF n = CLI_MAX_ARGS THEN SubSeq(line, NthStart(line, n), Len(line))
         ELSE WordAt(line, NthStart(line, n))]

\* A command gets the words of the line just typed, nothing of an earlier one,
\* the last argument there is place for taking the rest of the line.
\* (cli_tokenize on the buffer that cli_task_entry fills)
ArgsAreTyped == [][cli_process_cmd => argv' = Args(Line)]_vars

Count(table, cmd) == Cardinality({i \in DOMAIN table : table[i] = cmd})

\* Unregistering takes away one command of that name and keeps every other one.
OthersStay ==
  [][\A name \in {cmd.name : cmd \in Commands} : cli_unregister_command(name) =>
       \E gone \in Commands :
         /\ gone.name = name
         /\ \A cmd \in Commands :
              Count(commands, cmd) = Count(commands', cmd) + IF cmd = gone THEN 1 ELSE 0]_vars

Value(text) ==
  LET value[n \in 0 .. Len(text)] ==
        IF n = 0 THEN 0 ELSE 10 * value[n - 1] + (text[n] - 48)
  IN  value[Len(text)]

Magnitude(text) == IF text # <<>> /\ Head(text) = 45 THEN Tail(text) ELSE text

\* A number printed with %d or %u is decimal digits, no leading zero, and reads
\* back as itself.
NumbersRead ==
  printed # NONE =>
    LET digits == Magnitude(printed.text) IN
    /\ digits # <<>> /\ \A i \in DOMAIN digits : digits[i] \in 48 .. 57
    /\ digits[1] # 48 \/ Len(digits) = 1
    /\ printed.number = IF digits = printed.text THEN Value(digits) ELSE -Value(digits)

=============================================================================
