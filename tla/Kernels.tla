------------------------------- MODULE Kernels -------------------------------
(* The repository's two kernels side by side, each with the screen and the *)
(* printf of its own: MyToyOS2's is Console, MyToyOS1's MultibootConsole.  *)
(* A machine boots one of them.                                            *)
EXTENDS Console

CONSTANTS
  COLUMNS, LINES, WordSize, Infos  (* MultibootConsole's                   *)

VARIABLES
  mbi, at, i_, mmap, xpos, ypos, video, pending_, printed

Multiboot == INSTANCE MultibootConsole WITH i <- i_, pending <- pending_

(* A screen has cells; boot loaders pass what they should.                 *)
ASSUME BootAssumption ==
  /\ COLUMNS \in Nat \ {0} /\ LINES \in Nat \ {0} /\ WordSize \in Nat
  /\ \A info \in Infos : Multiboot!WellMade(info)

(* MultibootConsole's: all modules and regions are reported, numbers are   *)
(* printed as libc does, the screen shows the last round of the text       *)
(* (cmain, printf and putchar of MyToyOS1's kernel.c).                     *)
ReportWhole == Multiboot!ReportWhole
NumbersReadBack == Multiboot!NumbersReadBack
ShowsTheLastRound == Multiboot!ShowsTheLastRound
=============================================================================
