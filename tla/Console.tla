------------------------------- MODULE Console -------------------------------
(***************************************************************************)
(* _printf of MyToyOS2 (stdio.c) on the terminal: one action per round of  *)
(* its loop.  What a round prints goes to terminal_write, whose characters *)
(* the terminal takes one by one before _printf goes on.                   *)
(***************************************************************************)
EXTENDS Terminal, SequencesExt

CONSTANTS
  Calls,     (* the calls of _printf there may be                          *)
  INT_MAX

(* A call is a sequence of directives; each says how it is written in the  *)
(* format, the argument it brings, and what it should print.               *)
Strings == Seq(Chars \cup {Newline})
Percent == "%"

(* Text, a doubled percent sign, a conversion of a character or a string,  *)
(* or one that is unknown, as is a percent sign at the end.  Only what no  *)
(* conversion follows may bring an argument that it does not use.          *)
IsDirective(d, last) ==
  /\ {d.format, d.prints} \subseteq Strings /\ d.args \in Seq(Strings)
  /\ \/ d.known /\ (last \/ d.args = <<>>)
          /\ \/ /\ d.format # <<>> /\ d.prints = d.format
                /\ \A k \in 1 .. Len(d.format) : d.format[k] # Percent
             \/ d.format = <<Percent, Percent>> /\ d.prints = <<Percent>>
     \/ /\ d.known /\ d.args = <<d.prints>>
        /\ d.format \in {<<Percent, "c">>, <<Percent, "s">>}
     \/ /\ ~d.known /\ d.format # <<>> /\ d.format[1] = Percent
        /\ IF Len(d.format) = 1 THEN last ELSE d.format[2] \notin {"c", "s", Percent}

ASSUME ConsoleAssumption ==
  /\ INT_MAX \in Nat
  /\ \A call \in Calls :
       call \in Seq(Range(call)) /\ \A i \in 1 .. Len(call) : IsDirective(call[i], i = Len(call))

VARIABLES
  call,       (* the call under way                                        *)
  format,     (* the part of its format not yet looked at                  *)
  args,       (* its arguments not yet used                                *)
  written,    (* as in the code                                            *)
  returned,   (* has the call returned?                                    *)
  result,     (* what it has returned                                      *)
  pending,    (* characters in terminal_write                              *)
  put         (* history: what the call has printed                        *)

printfVars == <<call, format, args, written, returned, result>>
vars == <<printfVars, pending, put, terminalVars>>

Fields(c, f(_)) == FlattenSeq([i \in 1 .. Len(c) |-> f(c[i])])

Init ==
  /\ TerminalInit
  /\ call \in Calls
  /\ format = Fields(call, LAMBDA d : d.format)
  /\ args = Fields(call, LAMBDA d : d.args)
  /\ written = 0
  /\ returned = FALSE
  /\ result = 0
  /\ pending = <<>>
  /\ put = <<>>

-----------------------------------------------------------------------------
maxrem == INT_MAX - written

Starts(s, c) == s # <<>> /\ Head(s) = c
IsConversion(kind) == Starts(format, Percent) /\ Starts(Tail(format), kind)

(* print(data, amount), unless INT_MAX would be exceeded; the rest of the  *)
(* format is what the next round looks at.                                 *)
print(data, rest) ==
  /\ Len(data) <= maxrem
  /\ pending' = data
  /\ written' = written + Len(data)
  /\ format' = rest
  /\ UNCHANGED <<call, returned, result>>

Overflow(data) ==
  /\ Len(data) > maxrem
  /\ returned' = TRUE /\ result' = -1
  /\ UNCHANGED <<call, format, args, written, pending>>

(* Text up to the next percent sign; one that is doubled begins with the   *)
(* second of the two.                                                      *)
TextEnd(s) == SelectInSubSeq(s, 2, Len(s), LAMBDA c : c = Percent)
SkipPercentNever == format
SkipPercent == IF IsConversion(Percent) THEN Tail(format) ELSE format

PrintText ==
  /\ format # <<>>
  /\ ~Starts(format, Percent) \/ IsConversion(Percent)
  /\ LET s == SkipPercent
         amount == IF TextEnd(s) = 0 THEN Len(s) ELSE TextEnd(s) - 1
         data == SubSeq(s, 1, amount)
     IN  \/ print(data, SubSeq(s, amount + 1, Len(s))) /\ UNCHANGED args
         \/ Overflow(data)

(* %c prints a character, %s a string: here both are strings.              *)
PrintArgument ==
  /\ IsConversion("c") \/ IsConversion("s")
  /\ \/ /\ print(Head(args), SubSeq(format, 3, Len(format)))
        /\ args' = Tail(args)
     \/ Overflow(Head(args))

(* An unknown conversion: the rest of the format is printed as it is.      *)
PrintRest ==
  /\ Starts(format, Percent)
  /\ \A kind \in {"c", "s", Percent} : ~IsConversion(kind)
  /\ \/ print(format, <<>>) /\ UNCHANGED args
     \/ Overflow(format)

Return ==
  /\ format = <<>>
  /\ returned' = TRUE /\ result' = written
  /\ UNCHANGED <<call, format, args, written, pending>>

_printf ==
  /\ ~returned /\ pending = <<>> /\ ~Scrolling
  /\ PrintText \/ PrintArgument \/ PrintRest \/ Return
  /\ UNCHANGED <<put, terminalVars>>

terminal_write ==
  /\ pending # <<>>
  /\ terminal_putchar(Head(pending))
  /\ pending' = Tail(pending)
  /\ put' = Append(put, Head(pending))
  /\ UNCHANGED printfVars

Scroll == (memmove \/ terminal_scrollup) /\ UNCHANGED <<printfVars, pending, put>>

Next == _printf \/ terminal_write \/ Scroll

(* One thread that never waits for anything.                               *)
Spec == Init /\ [][Next]_vars /\ WF_vars(Next)

-----------------------------------------------------------------------------
(* What a call should print: what its directives say, up to the first      *)
(* unknown conversion, and then the rest of the format as it is.           *)
Expected ==
  LET u == SelectInSeq(call, LAMBDA d : ~d.known)
      n == IF u = 0 THEN Len(call) ELSE u - 1
  IN  Fields(SubSeq(call, 1, n), LAMBDA d : d.prints)
        \o Fields(SubSeq(call, n + 1, Len(call)), LAMBDA d : d.format)

(* A call of _printf that succeeds has printed what its format says and    *)
(* returned the number of characters; one that fails has printed only a    *)
(* beginning of it, and no more than it can count.                         *)
PrintsWhatTheFormatSays ==
  returned =>
    /\ IsPrefix(put, Expected) /\ Len(put) <= INT_MAX
    /\ IF Len(Expected) <= INT_MAX
         THEN put = Expected /\ result = Len(Expected)
         ELSE result = -1
=============================================================================
