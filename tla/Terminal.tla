------------------------------ MODULE Terminal -------------------------------
(***************************************************************************)
(* The text screen of MyToyOS2 (tty.c).  terminal_putchar is one action    *)
(* unless it has to scroll; then the loop of memmove, which copies upwards *)
(* within the screen it reads from, takes a step per cell (two bytes of    *)
(* video memory) and terminal_scrollup ends with the bottom line.  Some    *)
(* definitions come after an altered form of themselves, a bug this code   *)
(* could have.                                                             *)
(***************************************************************************)
EXTENDS Integers, Sequences

CONSTANTS
  VGA_WIDTH, VGA_HEIGHT,   (* 80 and 25 on the machine                     *)
  Chars,                   (* characters that have a glyph                 *)
  Blank,                   (* the space among them                         *)
  Newline                  (* the one character that is not shown          *)

ASSUME ScreenAssumption ==
  /\ VGA_WIDTH \in Nat \ {0} /\ VGA_HEIGHT \in Nat \ {0}
  /\ Blank \in Chars /\ Newline \notin Chars

Cells == VGA_WIDTH * VGA_HEIGHT
BottomLine == VGA_WIDTH * (VGA_HEIGHT - 1)

VARIABLES
  terminal_row, terminal_column,
  terminal_buffer,   (* the screen, a character for each cell              *)
  moved,             (* memmove's loop: cells copied so far                *)
  paper,             (* history: all cells ever filled, in order           *)
  off                (* history: how many of them have left the screen     *)

terminalVars == <<terminal_row, terminal_column, terminal_buffer, moved, paper, off>>

(* terminal_initialize *)
TerminalInit ==
  /\ terminal_row = 0
  /\ terminal_column = 0
  /\ terminal_buffer = [i \in 0 .. Cells - 1 |-> Blank]
  /\ moved = 0
  /\ paper = <<>>
  /\ off = 0

Scrolling == terminal_row = VGA_HEIGHT

-----------------------------------------------------------------------------
Blanks(n) == [i \in 1 .. n |-> Blank]

terminal_newline ==
  /\ terminal_row' = terminal_row + 1
  /\ terminal_column' = 0
  /\ paper' = paper \o Blanks(VGA_WIDTH - terminal_column)
  /\ UNCHANGED terminal_buffer

(* The cursor goes to the next line when a line is full.                   *)
AdvanceLate ==
  IF terminal_column = VGA_WIDTH
    THEN terminal_column' = 0 /\ terminal_row' = terminal_row + 1
    ELSE terminal_column' = terminal_column + 1 /\ UNCHANGED terminal_row
Advance ==
  IF terminal_column + 1 = VGA_WIDTH
    THEN terminal_column' = 0 /\ terminal_row' = terminal_row + 1
    ELSE terminal_column' = terminal_column + 1 /\ UNCHANGED terminal_row

terminal_putentry(c) ==
  /\ terminal_buffer' =
       [terminal_buffer EXCEPT ![terminal_row * VGA_WIDTH + terminal_column] = c]
  /\ paper' = Append(paper, c)
  /\ Advance

terminal_putchar(c) ==
  /\ ~Scrolling
  /\ \/ c = Newline /\ terminal_newline
     \/ c # Newline /\ terminal_putentry(c)
  /\ UNCHANGED <<moved, off>>

(* memmove(dst, dst + VGA_WIDTH, ...): one more cell of the upper lines.   *)
memmove_from_above ==
  /\ Scrolling /\ moved < BottomLine
  /\ LET i == BottomLine - 1 - moved
     IN  terminal_buffer' =
           [terminal_buffer EXCEPT ![i] = terminal_buffer[i + VGA_WIDTH]]
  /\ moved' = moved + 1
  /\ UNCHANGED <<terminal_row, terminal_column, paper, off>>
memmove ==
  /\ Scrolling /\ moved < BottomLine
  /\ terminal_buffer' =
       [terminal_buffer EXCEPT ![moved] = terminal_buffer[moved + VGA_WIDTH]]
  /\ moved' = moved + 1
  /\ UNCHANGED <<terminal_row, terminal_column, paper, off>>

(* The rest of terminal_scrollup, and of the terminal_putchar it is for.   *)
terminal_scrollup_only ==
  /\ Scrolling /\ moved = BottomLine
  /\ terminal_buffer' = [i \in 0 .. Cells - 1 |->
                           IF i < BottomLine THEN terminal_buffer[i] ELSE Blank]
  /\ moved' = 0
  /\ UNCHANGED <<terminal_row, terminal_column, paper, off>>
terminal_scrollup ==
  /\ Scrolling /\ moved = BottomLine
  /\ terminal_buffer' = [i \in 0 .. Cells - 1 |->
                           IF i < BottomLine THEN terminal_buffer[i] ELSE Blank]
  /\ terminal_row' = VGA_HEIGHT - 1
  /\ moved' = 0
  /\ off' = off + VGA_WIDTH
  /\ UNCHANGED <<terminal_column, paper>>

TerminalNext ==
  \/ \E c \in Chars \cup {Newline} : terminal_putchar(c)
  \/ memmove
  \/ terminal_scrollup

TerminalSpec == TerminalInit /\ [][TerminalNext]_terminalVars

-----------------------------------------------------------------------------
(* The types; in particular the cursor is on the screen whenever a         *)
(* character is put, so that terminal_putentryat writes to video memory.   *)
TerminalTypeOK ==
  /\ terminal_row \in 0 .. VGA_HEIGHT
  /\ terminal_column \in 0 .. VGA_WIDTH - 1
  /\ terminal_buffer \in [0 .. Cells - 1 -> Chars]
  /\ moved \in 0 .. BottomLine
  /\ paper \in Seq(Chars)
  /\ off \in Nat

(* What the reader sees once terminal_putchar has returned: the end of     *)
(* everything printed, line for line, and blanks after it.  It is what     *)
(* terminal_scrollup is for: no line of the text is lost, doubled or left  *)
(* over from before, although memmove overwrites what it copies from.      *)
ShowsTheLastLines ==
  ~Scrolling =>
    \A i \in 0 .. Cells - 1 :
      terminal_buffer[i] =
        IF off + i < Len(paper) THEN paper[off + i + 1] ELSE Blank
=============================================================================
