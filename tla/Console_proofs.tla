---------------------------- MODULE Console_proofs ----------------------------
(***************************************************************************)
(* The terminal, for screens and texts of every size; and what _printf     *)
(* prints on it, for every call: where it is in the format says what it    *)
(* has printed and what is still to come.  Then what MyToyOS1 reports of   *)
(* the multiboot information, for every information, how it writes         *)
(* numbers, and what its screen shows.                                     *)
(***************************************************************************)
EXTENDS Kernels, SequenceTheorems, FiniteSetTheorems, WellFoundedInduction, TLAPS

-----------------------------------------------------------------------------
(* The terminal.                                                           *)

(* The lines of the screen: products of the width, as the proofs use them. *)
LEMMA Lines ==
  /\ Cells \in Nat /\ BottomLine \in Nat
  /\ Cells = BottomLine + VGA_WIDTH
  /\ VGA_HEIGHT * VGA_WIDTH = Cells
  /\ (VGA_HEIGHT - 1) * VGA_WIDTH = BottomLine
  BY ScreenAssumption DEF Cells, BottomLine

LEMMA LineBelow ==
  ASSUME NEW row \in 0 .. VGA_HEIGHT - 1
  PROVE  /\ row * VGA_WIDTH \in Nat
         /\ (row + 1) * VGA_WIDTH = row * VGA_WIDTH + VGA_WIDTH
         /\ row * VGA_WIDTH + VGA_WIDTH <= Cells
<1>1. row * VGA_WIDTH \in Nat
  BY ScreenAssumption
<1>2. (row + 1) * VGA_WIDTH = row * VGA_WIDTH + VGA_WIDTH
  BY ScreenAssumption
<1>3. (VGA_HEIGHT - 1 - row) * VGA_WIDTH >= 0
  BY ScreenAssumption
<1>4. (VGA_HEIGHT - 1 - row) * VGA_WIDTH
         = VGA_HEIGHT * VGA_WIDTH - row * VGA_WIDTH - VGA_WIDTH
  BY ScreenAssumption
<1> QED
  BY <1>1, <1>2, <1>3, <1>4, Lines, ScreenAssumption

-----------------------------------------------------------------------------
(* Where the cursor is: at the end of the paper.                           *)
CursorAtEnd ==
  /\ Len(paper) = off + terminal_row * VGA_WIDTH + terminal_column
  /\ Scrolling => terminal_column = 0
  /\ ~Scrolling => moved = 0

(* What is on the screen, in the middle of memmove as well: the cells      *)
(* copied so far are a line ahead of the others.                           *)
Ahead(i) == IF Scrolling /\ i < moved THEN i + VGA_WIDTH ELSE i

ScreenIsPaper ==
  \A i \in 0 .. Cells - 1 :
    terminal_buffer[i] =
      IF off + Ahead(i) < Len(paper) THEN paper[off + Ahead(i) + 1] ELSE Blank

(* The inductive invariant.                                                *)
TerminalInv == TerminalTypeOK /\ CursorAtEnd /\ ScreenIsPaper

-----------------------------------------------------------------------------
LEMMA InitInv == TerminalInit => TerminalInv
<1> SUFFICES ASSUME TerminalInit PROVE TerminalInv
  OBVIOUS
<1> USE DEF TerminalInit
<1>1. TerminalTypeOK
  BY Lines, ScreenAssumption DEF TerminalTypeOK
<1>2. CursorAtEnd
  BY ScreenAssumption DEF CursorAtEnd, Scrolling
<1>3. ScreenIsPaper
  BY ScreenAssumption, Lines DEF ScreenIsPaper, Ahead, Scrolling
<1> QED
  BY <1>1, <1>2, <1>3 DEF TerminalInv

(* The lengths and the members of the two ways to fill the paper.          *)
LEMMA AppendPaper ==
  ASSUME NEW s \in Seq(Chars), NEW c \in Chars, NEW t, t = Append(s, c)
  PROVE  /\ t \in Seq(Chars) /\ Len(t) = Len(s) + 1
         /\ \A j \in 1 .. Len(s) : t[j] = s[j]
         /\ t[Len(s) + 1] = c
  OBVIOUS

LEMMA PadBlank ==
  ASSUME NEW s \in Seq(Chars), NEW n \in Nat, NEW t, t = s \o Blanks(n),
         NEW j \in Len(s) + 1 .. Len(s) + n
  PROVE  t[j] = Blank
<1>1. Blanks(n) \in Seq(Chars) /\ Len(Blanks(n)) = n
  BY ScreenAssumption DEF Blanks
<1>2. j - Len(s) \in 1 .. n
  OBVIOUS
<1>3. t[j] = Blanks(n)[j - Len(s)]
  BY <1>1
<1> QED
  BY <1>2, <1>3 DEF Blanks

LEMMA PadPaper ==
  ASSUME NEW s \in Seq(Chars), NEW n \in Nat, NEW t, t = s \o Blanks(n)
  PROVE  /\ t \in Seq(Chars) /\ Len(t) = Len(s) + n
         /\ \A j \in 1 .. Len(s) : t[j] = s[j]
         /\ \A j \in Len(s) + 1 .. Len(s) + n : t[j] = Blank
<1>1. Blanks(n) \in Seq(Chars) /\ Len(Blanks(n)) = n
  BY ScreenAssumption DEF Blanks
<1>2. t \in Seq(Chars) /\ Len(t) = Len(s) + n
  BY <1>1
<1>3. \A j \in 1 .. Len(s) : t[j] = s[j]
  BY <1>1
<1> QED
  BY <1>2, <1>3, PadBlank

LEMMA NewlineInv ==
  TerminalInv /\ terminal_putchar(Newline) => TerminalInv'
<1> SUFFICES ASSUME TerminalInv, terminal_putchar(Newline) PROVE TerminalInv'
  OBVIOUS
<1>1. /\ ~Scrolling /\ terminal_row' = terminal_row + 1 /\ terminal_column' = 0
      /\ paper' = paper \o Blanks(VGA_WIDTH - terminal_column)
      /\ UNCHANGED <<terminal_buffer, moved, off>>
  BY DEF terminal_putchar, terminal_newline
<1>2. /\ terminal_row \in 0 .. VGA_HEIGHT - 1
      /\ terminal_column \in 0 .. VGA_WIDTH - 1 /\ paper \in Seq(Chars)
      /\ terminal_buffer \in [0 .. Cells - 1 -> Chars]
      /\ off \in Nat /\ moved = 0
  BY <1>1, ScreenAssumption
     DEF TerminalInv, TerminalTypeOK, CursorAtEnd, Scrolling
<1> DEFINE n == VGA_WIDTH - terminal_column
           start == terminal_row * VGA_WIDTH
<1>3. n \in Nat
  BY <1>2, ScreenAssumption
<1>4. /\ paper' \in Seq(Chars) /\ Len(paper') = Len(paper) + n
      /\ \A j \in 1 .. Len(paper) : paper'[j] = paper[j]
      /\ \A j \in Len(paper) + 1 .. Len(paper) + n : paper'[j] = Blank
  <2>1. PICK t : t = paper'
    OBVIOUS
  <2>2. t = paper \o Blanks(n)
    BY <1>1, <2>1
  <2> HIDE DEF n
  <2>3. /\ t \in Seq(Chars) /\ Len(t) = Len(paper) + n
        /\ \A j \in 1 .. Len(paper) : t[j] = paper[j]
        /\ \A j \in Len(paper) + 1 .. Len(paper) + n : t[j] = Blank
    <3>1. paper \in Seq(Chars) /\ n \in Nat
      BY <1>2, <1>3
    <3>2. t \in Seq(Chars) /\ Len(t) = Len(paper) + n
      BY <3>1, <2>2, PadPaper
    <3>3. \A j \in 1 .. Len(paper) : t[j] = paper[j]
      BY <3>1, <2>2, PadPaper
    <3>4. \A j \in Len(paper) + 1 .. Len(paper) + n : t[j] = Blank
      <4>1. ASSUME NEW j \in Len(paper) + 1 .. Len(paper) + n PROVE t[j] = Blank
        BY <3>1, <2>2, PadBlank
      <4> QED
        BY <4>1
    <3> QED
      BY <3>2, <3>3, <3>4
  <2> QED
    BY <2>1, <2>3
<1>5. /\ start \in Nat /\ start + VGA_WIDTH <= Cells
      /\ terminal_row' * VGA_WIDTH = start + VGA_WIDTH
  BY <1>1, <1>2, LineBelow
<1>6. Len(paper) = off + start + terminal_column
  BY DEF TerminalInv, CursorAtEnd
<1>7. TerminalTypeOK'
  BY <1>1, <1>2, <1>4, Lines, ScreenAssumption DEF TerminalTypeOK
<1>8. Len(paper') = off' + start + VGA_WIDTH
  <2>1. start \in Nat /\ Len(paper') = Len(paper) + n /\ off' = off
    BY <1>1, <1>4, <1>5
  <2> HIDE DEF start
  <2> QED
    BY <2>1, <1>2, <1>6, ScreenAssumption
<1>9. CursorAtEnd'
  <2> DEFINE end == terminal_row' * VGA_WIDTH
  <2>0. end = start + VGA_WIDTH
    BY <1>5
  <2> HIDE DEF start, end
  <2>1. Len(paper') = off' + end + terminal_column'
    BY <1>1, <1>2, <1>5, <1>8, <2>0, ScreenAssumption
  <2> USE DEF end
  <2> QED
    BY <1>1, <1>2, <2>1 DEF CursorAtEnd, Scrolling
<1>10. ScreenIsPaper'
  <2> SUFFICES ASSUME NEW i \in 0 .. Cells - 1
               PROVE  terminal_buffer'[i] = IF off' + i < Len(paper')
                                              THEN paper'[off' + i + 1] ELSE Blank
    <3>1. \A j \in 0 .. Cells - 1 : Ahead(j)' = j
      BY <1>1, <1>2, Lines DEF Ahead
    <3> QED
      BY <3>1 DEF ScreenIsPaper
  <2>1. terminal_buffer[i] = IF off + i < Len(paper)
                               THEN paper[off + i + 1] ELSE Blank
    BY <1>1 DEF TerminalInv, ScreenIsPaper, Ahead
  <2>2. i \in Nat /\ off \in Nat /\ Len(paper) \in Nat
    BY <1>2, Lines
  <2> HIDE DEF n, start
  <2>3. Len(paper') = Len(paper) + n /\ off' = off /\ UNCHANGED terminal_buffer
    BY <1>1, <1>4
  <2>4. CASE off + i < Len(paper)
    <3>1. off + i + 1 \in 1 .. Len(paper)
      BY <2>2, <2>4
    <3>2. paper'[off + i + 1] = paper[off + i + 1]
      BY <3>1, <1>4
    <3> QED
      BY <2>1, <2>2, <2>3, <2>4, <1>3, <3>2
  <2>5. CASE ~(off + i < Len(paper)) /\ off + i < Len(paper')
    <3>1. off + i + 1 \in Len(paper) + 1 .. Len(paper) + n
      BY <2>2, <2>3, <2>5, <1>3
    <3>2. paper'[off + i + 1] = Blank
      BY <3>1, <1>4
    <3> QED
      BY <2>1, <2>3, <2>5, <3>2
  <2>6. CASE ~(off + i < Len(paper'))
    BY <2>1, <2>2, <2>3, <2>6, <1>3
  <2> QED
    BY <2>4, <2>5, <2>6
<1> QED
  BY <1>7, <1>9, <1>10 DEF TerminalInv

LEMMA PutInv ==
  ASSUME NEW c \in Chars
  PROVE  TerminalInv /\ terminal_putchar(c) => TerminalInv'
<1> SUFFICES ASSUME TerminalInv, terminal_putchar(c) PROVE TerminalInv'
  OBVIOUS
<1> DEFINE start == terminal_row * VGA_WIDTH
           end == terminal_row' * VGA_WIDTH
<1>1. /\ ~Scrolling /\ Advance
      /\ terminal_buffer' = [terminal_buffer EXCEPT ![start + terminal_column] = c]
      /\ paper' = Append(paper, c)
      /\ UNCHANGED <<moved, off>>
  BY ScreenAssumption DEF terminal_putchar, terminal_putentry
<1>2. /\ terminal_row \in 0 .. VGA_HEIGHT - 1
      /\ terminal_column \in 0 .. VGA_WIDTH - 1 /\ paper \in Seq(Chars)
      /\ terminal_buffer \in [0 .. Cells - 1 -> Chars]
      /\ off \in Nat /\ moved = 0
  BY <1>1, ScreenAssumption
     DEF TerminalInv, TerminalTypeOK, CursorAtEnd, Scrolling
<1>3. /\ start \in Nat /\ start + VGA_WIDTH <= Cells
      /\ (terminal_row + 1) * VGA_WIDTH = start + VGA_WIDTH
  BY <1>2, LineBelow
<1>4. Len(paper) = off + start + terminal_column
  BY DEF TerminalInv, CursorAtEnd
<1>5. /\ paper' \in Seq(Chars) /\ Len(paper') = Len(paper) + 1
      /\ \A j \in 1 .. Len(paper) : paper'[j] = paper[j]
      /\ paper'[Len(paper) + 1] = c
  BY <1>1, <1>2, AppendPaper
<1>6. \/ /\ terminal_column + 1 = VGA_WIDTH /\ terminal_column' = 0
         /\ terminal_row' = terminal_row + 1 /\ end = start + VGA_WIDTH
      \/ /\ terminal_column + 1 # VGA_WIDTH /\ terminal_row' = terminal_row
         /\ terminal_column' = terminal_column + 1 /\ end = start
  BY <1>1, <1>3 DEF Advance
<1>7. start + terminal_column \in 0 .. Cells - 1
  BY <1>2, <1>3, Lines, ScreenAssumption
<1> HIDE DEF start, end
<1>8. TerminalTypeOK'
  <2>1. terminal_buffer' \in [0 .. Cells - 1 -> Chars]
    BY <1>1, <1>2, <1>7
  <2>2. /\ terminal_row' \in 0 .. VGA_HEIGHT
        /\ terminal_column' \in 0 .. VGA_WIDTH - 1
    BY <1>2, <1>6, ScreenAssumption
  <2> QED
    BY <1>1, <1>2, <1>5, <2>1, <2>2, Lines DEF TerminalTypeOK
<1>9. CursorAtEnd'
  <2>1. Len(paper') = off' + end + terminal_column'
    BY <1>1, <1>2, <1>3, <1>4, <1>5, <1>6
  <2>2. terminal_row' = VGA_HEIGHT => terminal_column' = 0
    BY <1>2, <1>6, ScreenAssumption
  <2> QED
    BY <1>1, <1>2, <2>1, <2>2 DEF CursorAtEnd, Scrolling, end
<1>10. ScreenIsPaper'
  <2> SUFFICES ASSUME NEW i \in 0 .. Cells - 1
               PROVE  terminal_buffer'[i] = IF off' + i < Len(paper')
                                              THEN paper'[off' + i + 1] ELSE Blank
    <3>1. \A j \in 0 .. Cells - 1 : Ahead(j)' = j
      BY <1>1, <1>2, Lines DEF Ahead
    <3> QED
      BY <3>1 DEF ScreenIsPaper
  <2>1. terminal_buffer[i] = IF off + i < Len(paper)
                               THEN paper[off + i + 1] ELSE Blank
    BY <1>1 DEF TerminalInv, ScreenIsPaper, Ahead
  <2>2. i \in Nat /\ off \in Nat /\ Len(paper) \in Nat
    BY <1>2, Lines
  <2>3. CASE i = start + terminal_column
    <3>1. off + i = Len(paper) /\ terminal_buffer'[i] = c
      BY <1>1, <1>2, <1>3, <1>4, <1>7, <2>2, <2>3
    <3> QED
      BY <1>1, <1>5, <2>2, <3>1
  <2>4. CASE i # start + terminal_column
    <3>1. off + i # Len(paper) /\ terminal_buffer'[i] = terminal_buffer[i]
      BY <1>1, <1>2, <1>3, <1>4, <2>2, <2>4
    <3>2. CASE off + i < Len(paper)
      <4>1. paper'[off + i + 1] = paper[off + i + 1]
        BY <1>5, <2>2, <3>2
      <4> QED
        BY <1>1, <1>5, <2>1, <2>2, <3>1, <3>2, <4>1
    <3>3. CASE ~(off + i < Len(paper))
      BY <1>1, <1>5, <2>1, <2>2, <3>1, <3>3
    <3> QED
      BY <3>2, <3>3
  <2> QED
    BY <2>3, <2>4
<1> QED
  BY <1>8, <1>9, <1>10 DEF TerminalInv

(* A step of the loop reads a cell that the loop has not written.          *)
LEMMA MemmoveInv == TerminalInv /\ memmove => TerminalInv'
<1> SUFFICES ASSUME TerminalInv, memmove PROVE TerminalInv'
  OBVIOUS
<1>1. /\ Scrolling /\ moved < BottomLine /\ moved' = moved + 1
      /\ terminal_buffer' =
           [terminal_buffer EXCEPT ![moved] = terminal_buffer[moved + VGA_WIDTH]]
      /\ UNCHANGED <<terminal_row, terminal_column, paper, off>>
  BY DEF memmove
<1>2. /\ moved \in 0 .. BottomLine /\ off \in Nat
      /\ terminal_buffer \in [0 .. Cells - 1 -> Chars]
  BY DEF TerminalInv, TerminalTypeOK
<1>3. moved \in 0 .. Cells - 1 /\ moved + VGA_WIDTH \in 0 .. Cells - 1
  BY <1>1, <1>2, Lines, ScreenAssumption
<1>4. TerminalTypeOK'
  <2>1. terminal_buffer' \in [0 .. Cells - 1 -> Chars]
    BY <1>1, <1>2, <1>3
  <2>2. moved' \in 0 .. BottomLine
    BY <1>1, <1>2, Lines
  <2> QED
    BY <1>1, <2>1, <2>2 DEF TerminalInv, TerminalTypeOK
<1>5. CursorAtEnd'
  BY <1>1 DEF TerminalInv, CursorAtEnd, Scrolling
<1>6. ScreenIsPaper'
  <2> DEFINE Shown(k) == IF off + k < Len(paper) THEN paper[off + k + 1] ELSE Blank
  <2>1. \A i \in 0 .. Cells - 1 : terminal_buffer[i] = Shown(Ahead(i))
    BY DEF TerminalInv, ScreenIsPaper
  <2>2. SUFFICES ASSUME NEW i \in 0 .. Cells - 1
                 PROVE  terminal_buffer'[i] = Shown(Ahead(i)')
    BY <1>1 DEF ScreenIsPaper
  <2> HIDE DEF Shown
  <2>3. CASE i = moved
    <3>1. Ahead(i)' = i + VGA_WIDTH /\ Ahead(moved + VGA_WIDTH) = moved + VGA_WIDTH
      BY <1>1, <1>2, <2>3, Lines, ScreenAssumption DEF Ahead, Scrolling
    <3>2. terminal_buffer'[i] = terminal_buffer[moved + VGA_WIDTH]
      BY <1>1, <1>2, <2>3
    <3> QED
      BY <1>3, <2>1, <2>3, <3>1, <3>2
  <2>4. CASE i # moved
    <3>1. Ahead(i)' = Ahead(i)
      BY <1>1, <1>2, <2>4, Lines DEF Ahead, Scrolling
    <3>2. terminal_buffer'[i] = terminal_buffer[i]
      BY <1>1, <1>2, <2>4
    <3> QED
      BY <2>1, <3>1, <3>2
  <2> QED
    BY <2>3, <2>4
<1> QED
  BY <1>4, <1>5, <1>6 DEF TerminalInv

LEMMA ScrollupInv == TerminalInv /\ terminal_scrollup => TerminalInv'
<1> SUFFICES ASSUME TerminalInv, terminal_scrollup PROVE TerminalInv'
  OBVIOUS
<1>1. /\ Scrolling /\ moved = BottomLine /\ moved' = 0
      /\ terminal_buffer' = [i \in 0 .. Cells - 1 |->
                               IF i < BottomLine THEN terminal_buffer[i] ELSE Blank]
      /\ terminal_row' = VGA_HEIGHT - 1 /\ off' = off + VGA_WIDTH
      /\ UNCHANGED <<terminal_column, paper>>
  BY DEF terminal_scrollup
<1>2. /\ off \in Nat /\ paper \in Seq(Chars) /\ terminal_column = 0
      /\ terminal_buffer \in [0 .. Cells - 1 -> Chars]
  BY <1>1 DEF TerminalInv, TerminalTypeOK, CursorAtEnd
<1>3. Len(paper) = off + Cells
  <2>1. Len(paper) = off + VGA_HEIGHT * VGA_WIDTH + 0
    BY <1>1, <1>2 DEF TerminalInv, CursorAtEnd, Scrolling
  <2> QED
    BY <1>2, <2>1, Lines
<1>4. TerminalTypeOK'
  <2>1. terminal_buffer' \in [0 .. Cells - 1 -> Chars]
    BY <1>1, <1>2, ScreenAssumption
  <2>2. /\ moved' \in 0 .. BottomLine /\ off' \in Nat
        /\ terminal_row' \in 0 .. VGA_HEIGHT
        /\ terminal_column' \in 0 .. VGA_WIDTH - 1
    BY <1>1, <1>2, Lines, ScreenAssumption
  <2> QED
    BY <1>1, <1>2, <2>1, <2>2 DEF TerminalTypeOK
<1>5. CursorAtEnd'
  <2>1. terminal_row' * VGA_WIDTH = BottomLine
    BY <1>1, Lines
  <2>2. Len(paper') = off' + BottomLine + terminal_column'
    BY <1>1, <1>2, <1>3, Lines, ScreenAssumption
  <2>3. ~Scrolling'
    BY <1>1, ScreenAssumption DEF Scrolling
  <2> QED
    BY <1>1, <2>1, <2>2, <2>3 DEF CursorAtEnd
<1>6. ScreenIsPaper'
  <2> SUFFICES ASSUME NEW i \in 0 .. Cells - 1
               PROVE  terminal_buffer'[i] = IF off' + i < Len(paper')
                                              THEN paper'[off' + i + 1] ELSE Blank
    <3>1. \A j \in 0 .. Cells - 1 : Ahead(j)' = j
      BY <1>1, Lines DEF Ahead
    <3> QED
      BY <3>1 DEF ScreenIsPaper
  <2>1. i \in Nat
    BY Lines
  <2>2. CASE i < BottomLine
    <3>1. Ahead(i) = i + VGA_WIDTH
      BY <1>1, <2>2 DEF Ahead
    <3>2. terminal_buffer[i] = paper[off + (i + VGA_WIDTH) + 1]
      BY <1>2, <1>3, <2>1, <2>2, <3>1, Lines, ScreenAssumption
         DEF TerminalInv, ScreenIsPaper
    <3>3. /\ off + (i + VGA_WIDTH) + 1 = off' + i + 1
          /\ off' + i < Len(paper')
      BY <1>1, <1>2, <1>3, <2>1, <2>2, Lines, ScreenAssumption
    <3> QED
      BY <1>1, <2>2, <3>2, <3>3
  <2>3. CASE ~(i < BottomLine)
    <3>1. ~(off' + i < Len(paper'))
      BY <1>1, <1>2, <1>3, <2>1, <2>3, Lines, ScreenAssumption
    <3> QED
      BY <1>1, <2>3, <3>1
  <2> QED
    BY <2>2, <2>3
<1> QED
  BY <1>4, <1>5, <1>6 DEF TerminalInv

-----------------------------------------------------------------------------
LEMMA TerminalInvariant == TerminalSpec => []TerminalInv
<1>1. TerminalInv /\ [TerminalNext]_terminalVars => TerminalInv'
  <2> SUFFICES ASSUME TerminalInv, [TerminalNext]_terminalVars
               PROVE  TerminalInv'
    OBVIOUS
  <2>1. ASSUME NEW c \in Chars \cup {Newline}, terminal_putchar(c)
        PROVE  TerminalInv'
    <3>1. CASE c = Newline
      BY <2>1, <3>1, NewlineInv
    <3>2. CASE c \in Chars
      BY <2>1, <3>2, PutInv
    <3> QED
      BY <3>1, <3>2
  <2>2. CASE memmove
    BY <2>2, MemmoveInv
  <2>3. CASE terminal_scrollup
    BY <2>3, ScrollupInv
  <2>4. CASE UNCHANGED terminalVars
    BY <2>4 DEF terminalVars, TerminalInv, TerminalTypeOK, CursorAtEnd,
                ScreenIsPaper, Ahead, Scrolling
  <2> QED
    BY <2>1, <2>2, <2>3, <2>4 DEF TerminalNext
<1> QED
  BY <1>1, InitInv, PTL DEF TerminalSpec

(* Whatever is printed, on a screen of any size: the cursor is on the      *)
(* screen whenever a character is put there.                               *)
THEOREM TerminalTypeCorrect == TerminalSpec => []TerminalTypeOK
<1>1. TerminalInv => TerminalTypeOK
  BY DEF TerminalInv
<1> QED
  BY <1>1, TerminalInvariant, PTL

(* Whatever is printed, on a screen of any size: the screen shows the end  *)
(* of the text, and the loop of memmove, in the direction it has, gets     *)
(* scrolling right.                                                        *)
THEOREM ScreenCorrect == TerminalSpec => []ShowsTheLastLines
<1>1. TerminalInv => ShowsTheLastLines
  BY DEF TerminalInv, ShowsTheLastLines, ScreenIsPaper, Ahead
<1> QED
  BY <1>1, TerminalInvariant, PTL

-----------------------------------------------------------------------------
(* Printing.                                                               *)

(* Induction, for the set of the numbers that have the property.           *)
LEMMA SetInduction ==
  ASSUME NEW S, 0 \in S, \A n \in Nat : n \in S => n + 1 \in S
  PROVE  Nat \subseteq S
<1> DEFINE Less == {pair \in Nat \X Nat : pair[1] < pair[2]}
           T == Nat \ S
<1>1. IsWellFoundedOn(Less, Nat)
  BY NatLessThanWellFounded DEF OpToRel
<1>2. SUFFICES ASSUME T # {} PROVE FALSE
  OBVIOUS
<1>3. T \subseteq Nat
  OBVIOUS
<1> HIDE DEF T, Less
<1>4. PICK n \in T : \A m \in T : ~(<<m, n>> \in Less)
  BY <1>1, <1>2, <1>3, WFMin
<1>5. n \in Nat /\ n \notin S
  BY <1>3, <1>4 DEF T
<1>6. n - 1 \in Nat /\ n - 1 < n /\ (n - 1) + 1 = n
  BY <1>5
<1>7. n - 1 \notin T
  BY <1>4, <1>5, <1>6 DEF Less
<1>8. n - 1 \in S
  BY <1>6, <1>7 DEF T
<1> QED
  BY <1>5, <1>6, <1>8

(* A set of numbers that is not empty has a least one.                     *)
LEMMA LeastExists ==
  ASSUME NEW I \in SUBSET Nat, I # {}
  PROVE  Min(I) \in I /\ \A j \in I : Min(I) <= j
<1> DEFINE S == {n \in Nat : \A j \in I : j > n}
<1> SUFFICES \E i \in I : \A j \in I : i <= j
  BY DEF Min
<1>1. SUFFICES ASSUME \A i \in I : \E j \in I : ~(i <= j) PROVE FALSE
  OBVIOUS
<1>2. 0 \in S
  BY <1>1
<1>3. ASSUME NEW n \in Nat, n \in S PROVE n + 1 \in S
  BY <1>1, <1>3
<1> HIDE DEF S
<1>4. Nat \subseteq S
  BY <1>2, <1>3, SetInduction
<1>5. PICK i \in I : i \in S
  BY <1>4
<1> QED
  BY <1>5 DEF S

-----------------------------------------------------------------------------
(* Facts of SequenceTheorems in the form that is needed here.              *)
LEMMA Joined ==
  ASSUME NEW S, NEW a \in Seq(S), NEW b \in Seq(S)
  PROVE  /\ a \o b \in Seq(S) /\ Len(a \o b) = Len(a) + Len(b)
         /\ Len(a) \in Nat /\ Len(b) \in Nat
         /\ \A j \in 1 .. Len(a) + Len(b) :
              (a \o b)[j] = IF j <= Len(a) THEN a[j] ELSE b[j - Len(a)]
  BY ConcatProperties, LenProperties

LEMMA Regrouped ==
  ASSUME NEW S, NEW a \in Seq(S), NEW b \in Seq(S), NEW c \in Seq(S)
  PROVE  (a \o b) \o c = a \o (b \o c)
  BY ConcatAssociative, SMTT(30)

LEMMA NothingJoined ==
  ASSUME NEW S, NEW a \in Seq(S)
  PROVE  a \o <<>> = a /\ <<>> \o a = a /\ <<>> \in Seq(S)
  BY ConcatEmptySeq, EmptySeq

LEMMA JoinedCut ==
  ASSUME NEW S, NEW a \in Seq(S), NEW b \in Seq(S)
  PROVE  /\ SubSeq(a \o b, 1, Len(a)) = a
         /\ SubSeq(a \o b, Len(a) + 1, Len(a \o b)) = b
         /\ IsPrefix(a, a \o b)
<1> DEFINE m == Len(a)  n == Len(b)  w == a \o b
           x == SubSeq(w, 1, m)  y == SubSeq(w, m + 1, m + n)
<1>1. /\ w \in Seq(S) /\ Len(w) = m + n /\ m \in Nat /\ n \in Nat
      /\ \A j \in 1 .. m + n : w[j] = IF j <= m THEN a[j] ELSE b[j - m]
  BY Joined
<1>2. \A j \in 1 .. m + n : w[j] \in S
  BY <1>1, ElementOfSeq
<1> HIDE DEF m, n, w
<1>3. /\ x \in Seq(S) /\ Len(x) = (IF 1 <= m THEN m - 1 + 1 ELSE 0)
      /\ \A j \in 1 .. m - 1 + 1 : x[j] = w[1 + j - 1]
  BY <1>1, <1>2, SubSeqProperties
<1>4. /\ y \in Seq(S)
      /\ Len(y) = (IF m + 1 <= m + n THEN m + n - (m + 1) + 1 ELSE 0)
      /\ \A j \in 1 .. m + n - (m + 1) + 1 : y[j] = w[m + 1 + j - 1]
  BY <1>1, <1>2, SubSeqProperties
<1> HIDE DEF x, y
<1>5. Len(x) = m /\ \A j \in 1 .. m : x[j] = a[j]
  BY <1>1, <1>3
<1>6. Len(y) = n /\ \A j \in 1 .. n : y[j] = b[j]
  BY <1>1, <1>4
<1>7. x = a /\ y = b
  BY <1>3, <1>4, <1>5, <1>6, SeqEqual DEF m, n
<1>8. SubSeq(a, 1, m) = a
  BY SubSeqFull DEF m
<1> QED
  BY <1>1, <1>7, <1>8 DEF IsPrefix, x, y, m, n, w

LEMMA OneFirst ==
  ASSUME NEW S, NEW x \in S, NEW b \in Seq(S)
  PROVE  /\ <<x>> \o b \in Seq(S) /\ <<x>> \o b # <<>>
         /\ Head(<<x>> \o b) = x /\ Tail(<<x>> \o b) = b
<1> DEFINE a == <<x>>  w == a \o b
<1>1. a \in Seq(S) /\ Len(a) = 1 /\ a[1] = x
  OBVIOUS
<1> HIDE DEF a
<1>2. /\ w \in Seq(S) /\ Len(w) = Len(a) + Len(b) /\ Len(b) \in Nat
      /\ \A j \in 1 .. Len(a) + Len(b) :
           w[j] = IF j <= Len(a) THEN a[j] ELSE b[j - Len(a)]
  BY <1>1, Joined
<1>3. SubSeq(w, Len(a) + 1, Len(w)) = b
  <2>1. a \in Seq(S) /\ b \in Seq(S)
    BY <1>1
  <2> QED
    BY <2>1, JoinedCut, ZenonT(30)
<1> HIDE DEF w
<1>4. Len(w) = 1 + Len(b) /\ w[1] = x
  BY <1>1, <1>2
<1>5. w # <<>>
  <2>1. Len(w) # 0
    BY <1>2, <1>4
  <2> QED
    BY <2>1, EmptySeq
<1>6. Tail(w) = SubSeq(w, 2, Len(w)) /\ Head(w) = w[1]
  BY <1>2, <1>5, TailIsSubSeq
<1> QED
  BY <1>1, <1>2, <1>3, <1>4, <1>5, <1>6 DEF a, w

-----------------------------------------------------------------------------
(* FlattenSeq, by the sequences it goes through.                           *)
Parts(S, s, f) ==
  /\ f \in [0 .. Len(s) -> Seq(S)] /\ f[0] = <<>>
  /\ \A i \in 1 .. Len(s) : f[i] = f[i - 1] \o s[i]

LEMMA FlatParts ==
  ASSUME NEW S, NEW s \in Seq(Seq(S))
  PROVE  \E f : Parts(S, s, f) /\ FlattenSeq(s) = f[Len(s)]
<1> DEFINE Upto(m, f) == /\ f \in [0 .. m -> Seq(S)] /\ f[0] = <<>>
                         /\ \A i \in 1 .. m : f[i] = f[i - 1] \o s[i]
           E == {m \in Nat : m <= Len(s) => \E f : Upto(m, f)}
<1>1. Len(s) \in Nat /\ \A i \in 1 .. Len(s) : s[i] \in Seq(S)
  BY LenProperties, ElementOfSeq
<1>2. <<>> \in Seq(S)
  BY EmptySeq
<1>3. 0 \in E
  <2>1. Upto(0, [i \in 0 .. 0 |-> <<>>])
    BY <1>2
  <2> QED
    BY <2>1
<1> HIDE DEF Upto
<1>4. ASSUME NEW m \in Nat, m \in E PROVE m + 1 \in E
  <2>1. SUFFICES ASSUME m + 1 <= Len(s) PROVE \E f : Upto(m + 1, f)
    OBVIOUS
  <2>2. PICK f : Upto(m, f)
    BY <1>1, <1>4, <2>1
  <2> DEFINE x == f[m] \o s[m + 1]
             g == [i \in 0 .. m + 1 |-> IF i = m + 1 THEN x ELSE f[i]]
  <2>3. m + 1 \in 1 .. Len(s) /\ s[m + 1] \in Seq(S) /\ f[m] \in Seq(S)
    BY <1>1, <2>1, <2>2 DEF Upto
  <2>4. x \in Seq(S)
    BY <2>3, Joined
  <2> HIDE DEF x
  <2>5. g \in [0 .. m + 1 -> Seq(S)] /\ g[0] = <<>>
    BY <2>2, <2>4 DEF Upto
  <2>6. \A i \in 0 .. m : g[i] = f[i]
    OBVIOUS
  <2>7. g[m + 1] = x
    OBVIOUS
  <2> HIDE DEF g
  <2>8. ASSUME NEW i \in 1 .. m + 1 PROVE g[i] = g[i - 1] \o s[i]
    <3>1. CASE i = m + 1
      <4>1. i - 1 = m /\ m \in 0 .. m
        BY <3>1
      <4>2. g[i - 1] = f[m]
        BY <2>6, <4>1
      <4> QED
        BY <2>7, <3>1, <4>2 DEF x
    <3>2. CASE i \in 1 .. m
      <4>1. i \in 0 .. m /\ i - 1 \in 0 .. m
        BY <3>2
      <4>2. g[i] = f[i] /\ g[i - 1] = f[i - 1]
        BY <2>6, <4>1
      <4>3. f[i] = f[i - 1] \o s[i]
        BY <2>2, <3>2 DEF Upto
      <4> QED
        BY <4>2, <4>3
    <3>3. i = m + 1 \/ i \in 1 .. m
      OBVIOUS
    <3> QED
      BY <3>1, <3>2, <3>3
  <2> QED
    BY <2>5, <2>8 DEF Upto
<1>5. PICK f : Upto(Len(s), f)
  <2> HIDE DEF E
  <2>1. Len(s) \in E
    BY <1>1, <1>3, <1>4, SetInduction
  <2> QED
    BY <1>1, <2>1 DEF E
<1>6. CASE Len(s) = 0
  <2>1. s = <<>>
    BY <1>6, EmptySeq
  <2> QED
    BY <1>5, <1>6, <2>1 DEF FlattenSeq, Parts, Upto
<1>7. CASE Len(s) # 0
  <2> DEFINE f1 == [i \in 1 .. Len(s) |-> f[i]]
  <2>1. f[1] = s[1]
    <3>1. 1 \in 1 .. Len(s)
      BY <1>1, <1>7
    <3>2. f[1] = f[1 - 1] \o s[1]
      BY <1>5, <3>1 DEF Upto
    <3>3. f[1 - 1] = <<>>
      BY <1>5 DEF Upto
    <3>4. <<>> \o s[1] = s[1]
      BY <1>1, <3>1, NothingJoined
    <3> QED
      BY <3>2, <3>3, <3>4
  <2>2. f1 = [i \in 1 .. Len(s) |-> IF i = 1 THEN s[i] ELSE f1[i - 1] \o s[i]]
    <3>1. ASSUME NEW i \in 1 .. Len(s), i # 1 PROVE f1[i] = f1[i - 1] \o s[i]
      <4>1. i - 1 \in 1 .. Len(s)
        BY <1>1, <3>1
      <4>2. f1[i] = f[i] /\ f1[i - 1] = f[i - 1]
        BY <4>1
      <4>3. f[i] = f[i - 1] \o s[i]
        BY <1>5 DEF Upto
      <4> QED
        BY <4>2, <4>3
    <3>2. ASSUME NEW i \in 1 .. Len(s), i = 1 PROVE f1[i] = s[i]
      BY <2>1, <3>2
    <3>3. f1 = [i \in 1 .. Len(s) |-> f1[i]]
      OBVIOUS
    <3> HIDE DEF f1
    <3> QED
      BY <3>1, <3>2, <3>3
  <2> HIDE DEF f1
  <2>3. PICK t : /\ t = [i \in 1 .. Len(s) |-> IF i = 1 THEN s[i] ELSE t[i - 1] \o s[i]]
                 /\ FlattenSeq(s) = t[Len(s)]
    BY <1>7, <2>2 DEF FlattenSeq
  <2>4. \A i \in 1 .. Len(s) : t[i] = IF i = 1 THEN s[i] ELSE t[i - 1] \o s[i]
    BY <2>3
  <2> DEFINE D == {i \in Nat : i + 1 <= Len(s) => t[i + 1] = f[i + 1]}
  <2>5. 0 \in D
    BY <1>1, <2>1, <2>4
  <2>6. ASSUME NEW i \in Nat, i \in D PROVE i + 1 \in D
    <3>1. SUFFICES ASSUME i + 2 <= Len(s) PROVE t[i + 2] = f[i + 2]
      BY <2>6
    <3>2. t[i + 1] = f[i + 1]
      BY <1>1, <2>6, <3>1
    <3>3. i + 2 \in 1 .. Len(s) /\ i + 2 # 1 /\ (i + 2) - 1 = i + 1
      BY <1>1, <3>1
    <3>4. t[i + 2] = t[(i + 2) - 1] \o s[i + 2]
      BY <2>4, <3>3
    <3>5. f[i + 2] = f[(i + 2) - 1] \o s[i + 2]
      BY <1>5, <3>3 DEF Upto
    <3> QED
      BY <3>2, <3>3, <3>4, <3>5
  <2>7. t[Len(s)] = f[Len(s)]
    <3> HIDE DEF D
    <3>1. Len(s) - 1 \in Nat /\ (Len(s) - 1) + 1 = Len(s)
      BY <1>1, <1>7
    <3>2. Len(s) - 1 \in D
      BY <2>5, <2>6, <3>1, SetInduction
    <3> QED
      BY <1>1, <3>1, <3>2 DEF D
  <2> QED
    BY <1>5, <2>3, <2>7 DEF Parts, Upto
<1> QED
  BY <1>6, <1>7

LEMMA FlatJoined ==
  ASSUME NEW S, NEW s \in Seq(Seq(S)), NEW t \in Seq(Seq(S))
  PROVE  /\ FlattenSeq(s \o t) = FlattenSeq(s) \o FlattenSeq(t)
         /\ FlattenSeq(s) \in Seq(S) /\ FlattenSeq(t) \in Seq(S)
<1> DEFINE m == Len(s)  n == Len(t)  w == s \o t
<1>1. /\ w \in Seq(Seq(S)) /\ Len(w) = m + n /\ m \in Nat /\ n \in Nat
      /\ \A j \in 1 .. m + n : w[j] = IF j <= m THEN s[j] ELSE t[j - m]
      /\ \A j \in 1 .. n : t[j] \in Seq(S)
  BY Joined, ElementOfSeq
<1> HIDE DEF m, n, w
<1>2. PICK f : Parts(S, s, f) /\ FlattenSeq(s) = f[m]
  BY FlatParts DEF m
<1>3. PICK g : Parts(S, t, g) /\ FlattenSeq(t) = g[n]
  BY FlatParts DEF n
<1>4. PICK h : Parts(S, w, h) /\ FlattenSeq(w) = h[m + n]
  BY <1>1, FlatParts
<1>5. \A i \in 0 .. m : h[i] = f[i]
  <2> DEFINE E == {i \in Nat : i <= m => h[i] = f[i]}
  <2>1. 0 \in E
    BY <1>2, <1>4 DEF Parts
  <2>2. ASSUME NEW i \in Nat, i \in E PROVE i + 1 \in E
    <3>1. SUFFICES ASSUME i + 1 <= m PROVE h[i + 1] = f[i + 1]
      OBVIOUS
    <3>2. h[i] = f[i]
      BY <1>1, <2>2, <3>1
    <3>3. i + 1 \in 1 .. m /\ i + 1 \in 1 .. m + n /\ (i + 1) - 1 = i
      BY <1>1, <3>1
    <3>4. h[i + 1] = h[(i + 1) - 1] \o w[i + 1]
      BY <1>1, <1>4, <3>3 DEF Parts
    <3>5. f[i + 1] = f[(i + 1) - 1] \o s[i + 1]
      BY <1>2, <3>3 DEF Parts, m
    <3>6. w[i + 1] = s[i + 1]
      BY <1>1, <3>3
    <3> QED
      BY <3>2, <3>3, <3>4, <3>5, <3>6
  <2> HIDE DEF E
  <2>3. Nat \subseteq E
    BY <2>1, <2>2, SetInduction
  <2> QED
    BY <1>1, <2>3 DEF E
<1>6. f[m] \in Seq(S) /\ \A j \in 0 .. n : g[j] \in Seq(S)
  <2>1. f \in [0 .. m -> Seq(S)] /\ g \in [0 .. n -> Seq(S)]
    BY <1>2, <1>3 DEF Parts, m, n
  <2>2. m \in 0 .. m
    BY <1>1
  <2> QED
    BY <2>1, <2>2
<1>7. h[m + n] = f[m] \o g[n]
  <2> DEFINE Same(j) == h[m + j] = f[m] \o g[j]
             E == {j \in Nat : j <= n => Same(j)}
  <2>1. Same(0)
    <3>1. g[0] = <<>>
      BY <1>3 DEF Parts
    <3>2. m + 0 = m /\ h[m] = f[m]
      BY <1>1, <1>5
    <3>3. f[m] \o <<>> = f[m]
      BY <1>6, NothingJoined
    <3> QED
      BY <3>1, <3>2, <3>3
  <2>2. ASSUME NEW j \in Nat, Same(j), j + 1 <= n PROVE Same(j + 1)
    <3>2. h[m + j] = f[m] \o g[j]
      BY <2>2
    <3>3. /\ j + 1 \in 1 .. n /\ m + (j + 1) \in 1 .. m + n /\ (m + (j + 1)) - 1 = m + j
          /\ (j + 1) - 1 = j /\ j \in 0 .. n /\ (m + (j + 1)) - m = j + 1
          /\ ~(m + (j + 1) <= m)
      BY <1>1, <2>2
    <3>4. h[m + (j + 1)] = h[(m + (j + 1)) - 1] \o w[m + (j + 1)]
      BY <1>1, <1>4, <3>3 DEF Parts
    <3>5. g[j + 1] = g[(j + 1) - 1] \o t[j + 1]
      BY <1>3, <3>3 DEF Parts, n
    <3>6. w[m + (j + 1)] = t[(m + (j + 1)) - m]
      BY <1>1, <3>3
    <3>7. (f[m] \o g[j]) \o t[j + 1] = f[m] \o (g[j] \o t[j + 1])
      <4>1. g[j] \in Seq(S) /\ t[j + 1] \in Seq(S)
        BY <1>1, <1>6, <3>3
      <4>2. \A a, b, c \in Seq(S) : (a \o b) \o c = a \o (b \o c)
        BY ConcatAssociative, SMTT(30)
      <4> QED
        BY <1>6, <4>1, <4>2, Zenon
    <3> QED
      BY <3>2, <3>3, <3>4, <3>5, <3>6, <3>7
  <2> HIDE DEF Same
  <2>3. 0 \in E
    BY <2>1
  <2>4. ASSUME NEW j \in Nat, j \in E PROVE j + 1 \in E
    BY <1>1, <2>2, <2>4
  <2> HIDE DEF E
  <2>5. n \in E
    BY <1>1, <2>3, <2>4, SetInduction
  <2>6. Same(n)
    BY <1>1, <2>5 DEF E
  <2> QED
    BY <2>6 DEF Same
<1>8. f[m] \in Seq(S) /\ g[n] \in Seq(S)
  BY <1>1, <1>6
<1> QED
  BY <1>2, <1>3, <1>4, <1>7, <1>8 DEF w

LEMMA FlatOne ==
  ASSUME NEW S, NEW x \in Seq(S)
  PROVE  FlattenSeq(<<x>>) = x
<1>1. <<x>> \in Seq(Seq(S)) /\ Len(<<x>>) = 1 /\ <<x>>[1] = x
  OBVIOUS
<1>2. PICK f : Parts(S, <<x>>, f) /\ FlattenSeq(<<x>>) = f[1]
  BY <1>1, FlatParts
<1>3. f[1] = f[1 - 1] \o <<x>>[1] /\ f[0] = <<>>
  <2>1. 1 \in 1 .. Len(<<x>>)
    BY <1>1
  <2> QED
    BY <1>2, <2>1 DEF Parts
<1>4. f[1 - 1] = <<>> /\ <<>> \o x = x
  BY <1>3, NothingJoined
<1> QED
  BY <1>1, <1>2, <1>3, <1>4

(* What comes from the i-th element of a sequence of sequences on.         *)
From(s, i) == FlattenSeq(SubSeq(s, i, Len(s)))

LEMMA FromType ==
  ASSUME NEW S, NEW s \in Seq(Seq(S)), NEW i \in 1 .. Len(s) + 1
  PROVE  From(s, i) \in Seq(S)
<1>1. Len(s) \in Nat /\ \A j \in i .. Len(s) : s[j] \in Seq(S)
  BY LenProperties, ElementOfSeq
<1>2. SubSeq(s, i, Len(s)) \in Seq(Seq(S))
  BY <1>1, SubSeqProperties
<1> QED
  BY <1>2, FlatJoined DEF From

LEMMA FromStep ==
  ASSUME NEW S, NEW s \in Seq(Seq(S)), NEW i \in 1 .. Len(s)
  PROVE  /\ From(s, i) = s[i] \o From(s, i + 1)
         /\ s[i] \in Seq(S) /\ From(s, i) \in Seq(S) /\ From(s, i + 1) \in Seq(S)
<1>1. Len(s) \in Nat /\ s[i] \in Seq(S) /\ \A j \in 1 .. Len(s) : s[j] \in Seq(S)
  BY LenProperties, ElementOfSeq
<1>2. i + 1 \in 1 .. Len(s) + 1 /\ i \in 1 .. Len(s) + 1 /\ Len(s) \in i .. Len(s)
  BY <1>1
<1>3. SubSeq(s, i + 1, Len(s)) \in Seq(Seq(S))
  BY <1>1, SubSeqProperties
<1>4. SubSeq(s, i, Len(s)) = <<s[i]>> \o SubSeq(s, i + 1, Len(s))
  BY <1>2, SubSeqRecursiveFirst
<1>5. <<s[i]>> \in Seq(Seq(S))
  BY <1>1
<1>6. From(s, i) = FlattenSeq(<<s[i]>>) \o From(s, i + 1)
  BY <1>3, <1>4, <1>5, FlatJoined DEF From
<1>7. FlattenSeq(<<s[i]>>) = s[i]
  BY <1>1, FlatOne
<1> QED
  BY <1>1, <1>2, <1>6, <1>7, FromType

LEMMA FromEnd ==
  ASSUME NEW S, NEW s \in Seq(S)
  PROVE  From(s, Len(s) + 1) = <<>> /\ From(s, 1) = FlattenSeq(s)
<1>1. Len(s) \in Nat
  BY LenProperties
<1>2. SubSeq(s, Len(s) + 1, Len(s)) = <<>>
  BY <1>1, SubSeqEmpty
<1>3. FlattenSeq(<<>>) = <<>>
  BY DEF FlattenSeq
<1>4. SubSeq(s, 1, Len(s)) = s
  BY SubSeqFull
<1> QED
  BY <1>2, <1>3, <1>4 DEF From

-----------------------------------------------------------------------------
(* What the directives of a call are in the format, what they bring and    *)
(* what they should print: KnownIn is how many come before one that is     *)
(* unknown, from which on the format is printed as it is.                  *)
Formats(c) == [i \in 1 .. Len(c) |-> c[i].format]
Arguments(c) == [i \in 1 .. Len(c) |-> c[i].args]
KnownIn(c) ==
  LET u == SelectInSeq(c, LAMBDA d : ~d.known) IN IF u = 0 THEN Len(c) ELSE u - 1
Says(c) ==
  [i \in 1 .. Len(c) |-> IF i <= KnownIn(c) THEN c[i].prints ELSE c[i].format]

LEMMA KnownFirst ==
  ASSUME NEW c \in Calls
  PROVE  /\ KnownIn(c) \in 0 .. Len(c) /\ Len(c) \in Nat
         /\ \A i \in 1 .. Len(c) : i <= KnownIn(c) => c[i].known
         /\ KnownIn(c) < Len(c) => ~c[KnownIn(c) + 1].known
<1> DEFINE I == {i \in 1 .. Len(c) : ~c[i].known}
<1>1. Len(c) \in Nat
  BY ConsoleAssumption, LenProperties
<1>2. KnownIn(c) = LET u == IF I # {} THEN Min(I) ELSE 0
                   IN  IF u = 0 THEN Len(c) ELSE u - 1
  BY DEF KnownIn, SelectInSeq
<1>3. CASE I = {}
  <2>1. KnownIn(c) = Len(c)
    BY <1>2, <1>3
  <2> QED
    BY <1>1, <1>3, <2>1
<1>4. CASE I # {}
  <2>1. Min(I) \in I /\ \A j \in I : Min(I) <= j
    <3>1. I \in SUBSET Nat
      BY <1>1
    <3> HIDE DEF I
    <3> QED
      BY <1>4, <3>1, LeastExists
  <2> DEFINE m == Min(I)
  <2> HIDE DEF m
  <2>2. m \in 1 .. Len(c) /\ ~c[m].known /\ \A j \in 1 .. Len(c) : ~c[j].known => m <= j
    BY <2>1 DEF m
  <2>3. KnownIn(c) = m - 1
    BY <1>1, <1>2, <1>4, <2>2 DEF m
  <2> QED
    BY <1>1, <2>2, <2>3
<1> QED
  BY <1>3, <1>4

LEMMA CallParts ==
  ASSUME NEW c \in Calls
  PROVE  /\ Formats(c) \in Seq(Strings) /\ Len(Formats(c)) = Len(c)
         /\ Arguments(c) \in Seq(Seq(Strings)) /\ Len(Arguments(c)) = Len(c)
         /\ Says(c) \in Seq(Strings) /\ Len(Says(c)) = Len(c)
         /\ Len(c) \in Nat
         /\ \A i \in 1 .. Len(c) :
              /\ IsDirective(c[i], i = Len(c))
              /\ Formats(c)[i] = c[i].format /\ Arguments(c)[i] = c[i].args
              /\ Says(c)[i] = IF i <= KnownIn(c) THEN c[i].prints ELSE c[i].format
<1>1. Len(c) \in Nat /\ \A i \in 1 .. Len(c) : IsDirective(c[i], i = Len(c))
  BY ConsoleAssumption, LenProperties
<1>2. \A i \in 1 .. Len(c) :
        c[i].format \in Strings /\ c[i].prints \in Strings /\ c[i].args \in Seq(Strings)
  BY <1>1 DEF IsDirective
<1>3. Formats(c) \in [1 .. Len(c) -> Strings]
  BY <1>2 DEF Formats
<1>4. Arguments(c) \in [1 .. Len(c) -> Seq(Strings)]
  BY <1>2 DEF Arguments
<1>5. Says(c) \in [1 .. Len(c) -> Strings]
  BY <1>2 DEF Says
<1>6. \A T : \A g \in [1 .. Len(c) -> T] : g \in Seq(T) /\ Len(g) = Len(c)
  <2> SUFFICES ASSUME NEW T, NEW g \in [1 .. Len(c) -> T] PROVE g \in Seq(T) /\ Len(g) = Len(c)
    OBVIOUS
  <2>1. g \in Seq(T)
    BY <1>1, SeqDef
  <2>2. Len(g) \in Nat /\ DOMAIN g = 1 .. Len(g)
    BY <2>1, LenProperties
  <2> QED
    BY <1>1, <2>1, <2>2
<1>7. \A i \in 1 .. Len(c) :
        /\ Formats(c)[i] = c[i].format /\ Arguments(c)[i] = c[i].args
        /\ Says(c)[i] = IF i <= KnownIn(c) THEN c[i].prints ELSE c[i].format
  BY DEF Formats, Arguments, Says
<1> QED
  BY <1>1, <1>3, <1>4, <1>5, <1>6, <1>7

(* What is expected is what all directives say.                            *)
LEMMA ExpectedIsSaid ==
  ASSUME call \in Calls
  PROVE  Expected = From(Says(call), 1) /\ Expected \in Strings
<1> DEFINE n == KnownIn(call)  N == Len(call)
           a == SubSeq(call, 1, n)  b == SubSeq(call, n + 1, N)
           x == [i \in 1 .. Len(a) |-> a[i].prints]
           y == [i \in 1 .. Len(b) |-> b[i].format]
<1>1. n \in 0 .. N /\ N \in Nat /\ call \in Seq(Range(call))
  BY ConsoleAssumption, KnownFirst
<1>2. Expected = FlattenSeq(x) \o FlattenSeq(y)
  BY DEF Expected, Fields, KnownIn
<1>3. /\ Says(call) \in Seq(Strings) /\ Len(Says(call)) = N
      /\ \A i \in 1 .. N :
           Says(call)[i] = IF i <= n THEN call[i].prints ELSE call[i].format
  BY CallParts
<1>4. /\ Len(a) = n /\ \A i \in 1 .. n : a[i] = call[i]
      /\ Len(b) = N - n /\ \A i \in 1 .. N - n : b[i] = call[n + i]
  <2>1. \A i \in 1 .. N : call[i] \in Range(call)
    BY <1>1, ElementOfSeq
  <2>2. /\ Len(a) = (IF 1 <= n THEN n - 1 + 1 ELSE 0)
        /\ \A i \in 1 .. n - 1 + 1 : a[i] = call[1 + i - 1]
    BY <1>1, <2>1, SubSeqProperties
  <2>3. /\ Len(b) = (IF n + 1 <= N THEN N - (n + 1) + 1 ELSE 0)
        /\ \A i \in 1 .. N - (n + 1) + 1 : b[i] = call[n + 1 + i - 1]
    BY <1>1, <2>1, SubSeqProperties
  <2> HIDE DEF n, N, a, b
  <2> QED
    BY <1>1, <2>2, <2>3
<1> DEFINE s == Says(call)
<1> HIDE DEF a, b, n, N
<1>5. /\ SubSeq(s, 1, n) \in Seq(Strings) /\ Len(SubSeq(s, 1, n)) = n
      /\ \A i \in 1 .. n : SubSeq(s, 1, n)[i] = a[i].prints
      /\ SubSeq(s, n + 1, N) \in Seq(Strings) /\ Len(SubSeq(s, n + 1, N)) = N - n
      /\ \A i \in 1 .. N - n : SubSeq(s, n + 1, N)[i] = b[i].format
  <2>1. \A i \in 1 .. N : s[i] \in Strings
    BY <1>3, ElementOfSeq
  <2>2. /\ SubSeq(s, 1, n) \in Seq(Strings)
        /\ Len(SubSeq(s, 1, n)) = (IF 1 <= n THEN n - 1 + 1 ELSE 0)
        /\ \A i \in 1 .. n - 1 + 1 : SubSeq(s, 1, n)[i] = s[1 + i - 1]
    BY <1>1, <2>1, SubSeqProperties
  <2>3. /\ SubSeq(s, n + 1, N) \in Seq(Strings)
        /\ Len(SubSeq(s, n + 1, N)) = (IF n + 1 <= N THEN N - (n + 1) + 1 ELSE 0)
        /\ \A i \in 1 .. N - (n + 1) + 1 : SubSeq(s, n + 1, N)[i] = s[n + 1 + i - 1]
    BY <1>1, <2>1, SubSeqProperties
  <2> DEFINE v == SubSeq(s, 1, n)  w == SubSeq(s, n + 1, N)
  <2> HIDE DEF v, w
  <2>4. Len(v) = n /\ \A i \in 1 .. n : v[i] = s[i]
    BY <1>1, <2>2 DEF v
  <2>5. Len(w) = N - n /\ \A i \in 1 .. N - n : w[i] = s[n + i]
    BY <1>1, <2>3 DEF w
  <2>6. \A i \in 1 .. n : s[i] = a[i].prints
    BY <1>1, <1>3, <1>4
  <2>7. \A i \in 1 .. N - n : s[n + i] = b[i].format
    BY <1>1, <1>3, <1>4
  <2>8. /\ v \in Seq(Strings) /\ Len(v) = n /\ (\A i \in 1 .. n : v[i] = a[i].prints)
        /\ w \in Seq(Strings) /\ Len(w) = N - n
        /\ \A i \in 1 .. N - n : w[i] = b[i].format
    BY <2>2, <2>3, <2>4, <2>5, <2>6, <2>7 DEF v, w
  <2> QED
    BY <2>8 DEF v, w
<1>6. x = SubSeq(s, 1, n) /\ y = SubSeq(s, n + 1, N)
  <2> DEFINE v == SubSeq(s, 1, n)  w == SubSeq(s, n + 1, N)
  <2> HIDE DEF v, w
  <2>1. v = [i \in 1 .. n |-> v[i]] /\ w = [i \in 1 .. N - n |-> w[i]]
    BY <1>5, LenProperties DEF v, w
  <2>2. x = [i \in 1 .. n |-> v[i]]
    BY <1>4, <1>5 DEF v
  <2>3. y = [i \in 1 .. N - n |-> w[i]]
    BY <1>4, <1>5 DEF w
  <2> QED
    BY <2>1, <2>2, <2>3 DEF v, w
<1> HIDE DEF x, y
<1>7. SubSeq(s, 1, n) \o SubSeq(s, n + 1, N) = s
  BY <1>1, <1>3, ConcatAdjacentSubSeq, SubSeqFull
<1>8. FlattenSeq(s) = FlattenSeq(x) \o FlattenSeq(y) /\ FlattenSeq(s) \in Strings
  BY <1>3, <1>5, <1>6, <1>7, FlatJoined DEF Strings
<1> QED
  BY <1>2, <1>3, <1>8, FromEnd

-----------------------------------------------------------------------------
(* The next directive is the p-th, or the whole format has been used.      *)
Stands(c, p, f, as) ==
  /\ p \in 1 .. Len(c) + 1 /\ (p <= KnownIn(c) + 1 \/ p = Len(c) + 1)
  /\ f = From(Formats(c), p)
  /\ p <= Len(c) => as = From(Arguments(c), p)

(* How what is left of the format begins.                                  *)
LEMMA Begins ==
  ASSUME NEW c \in Calls, NEW i \in 1 .. Len(c)
  PROVE  LET d == c[i]  f == From(Formats(c), i)  r == From(Formats(c), i + 1)
         IN  /\ d.format \in Strings /\ d.prints \in Strings /\ d.args \in Seq(Strings)
             /\ d.format # <<>> /\ Len(d.format) \in Nat \ {0}
             /\ f = d.format \o r /\ f \in Strings /\ r \in Strings
             /\ Len(f) = Len(d.format) + Len(r) /\ Len(r) \in Nat
             /\ \A k \in 1 .. Len(d.format) : f[k] = d.format[k]
             /\ \A k \in 1 .. Len(r) : f[Len(d.format) + k] = r[k]
             /\ i = Len(c) => r = <<>> /\ f = d.format
             /\ From(Says(c), i) =
                  (IF i <= KnownIn(c) THEN d.prints ELSE d.format) \o From(Says(c), i + 1)
             /\ From(Says(c), i + 1) \in Strings
             /\ From(Arguments(c), i) = d.args \o From(Arguments(c), i + 1)
             /\ From(Arguments(c), i + 1) \in Seq(Strings)
<1> DEFINE d == c[i]  f == From(Formats(c), i)  r == From(Formats(c), i + 1)
<1>1. IsDirective(d, i = Len(c))
  BY CallParts
<1>2. d.format \in Strings /\ d.prints \in Strings /\ d.args \in Seq(Strings)
  BY <1>1 DEF IsDirective
<1>3. d.format # <<>>
  <2> DEFINE t == d.format
  <2>1. \/ t # <<>> \/ t = <<Percent, Percent>> \/ t \in {<<Percent, "c">>, <<Percent, "s">>}
    BY <1>1 DEF IsDirective
  <2> HIDE DEF t
  <2>2. t # <<>>
    BY <2>1
  <2> QED
    BY <2>2 DEF t
<1>4. Len(d.format) \in Nat \ {0}
  BY <1>2, <1>3, EmptySeq DEF Strings
<1>5. f = d.format \o r /\ f \in Strings /\ r \in Strings
  <2> DEFINE s == Formats(c)
  <2>1. s \in Seq(Strings) /\ i \in 1 .. Len(s) /\ s[i] = d.format
    BY CallParts
  <2> HIDE DEF s
  <2>2. From(s, i) = s[i] \o From(s, i + 1) /\ From(s, i) \in Strings /\ From(s, i + 1) \in Strings
    BY <2>1, FromStep DEF Strings
  <2> QED
    BY <2>1, <2>2 DEF s
<1>6. /\ From(Says(c), i) =
           (IF i <= KnownIn(c) THEN d.prints ELSE d.format) \o From(Says(c), i + 1)
      /\ From(Says(c), i + 1) \in Strings
  <2> DEFINE s == Says(c)
  <2>1. /\ s \in Seq(Strings) /\ i \in 1 .. Len(s)
        /\ s[i] = IF i <= KnownIn(c) THEN d.prints ELSE d.format
    BY CallParts
  <2> HIDE DEF s, d
  <2>2. From(s, i) = s[i] \o From(s, i + 1) /\ From(s, i + 1) \in Strings
    BY <2>1, FromStep DEF Strings
  <2> QED
    BY <2>1, <2>2 DEF s
<1>7. /\ From(Arguments(c), i) = d.args \o From(Arguments(c), i + 1)
      /\ From(Arguments(c), i + 1) \in Seq(Strings)
  <2> DEFINE s == Arguments(c)
  <2>1. s \in Seq(Seq(Strings)) /\ i \in 1 .. Len(s) /\ s[i] = d.args
    BY CallParts
  <2> HIDE DEF s
  <2>2. From(s, i) = s[i] \o From(s, i + 1) /\ From(s, i + 1) \in Seq(Strings)
    BY <2>1, FromStep
  <2> QED
    BY <2>1, <2>2 DEF s
<1>8. i = Len(c) => r = <<>>
  BY CallParts, FromEnd
<1> HIDE DEF d, f, r
<1>9. /\ Len(d.format \o r) = Len(d.format) + Len(r) /\ Len(r) \in Nat
      /\ \A j \in 1 .. Len(d.format) + Len(r) :
           (d.format \o r)[j] = IF j <= Len(d.format) THEN d.format[j] ELSE r[j - Len(d.format)]
  BY <1>2, <1>5, Joined DEF Strings
<1>10. i = Len(c) => f = d.format
  BY <1>2, <1>5, <1>8, NothingJoined DEF Strings
<1>11. \A k \in 1 .. Len(d.format) : f[k] = d.format[k]
  BY <1>4, <1>5, <1>9
<1>12. \A k \in 1 .. Len(r) : f[Len(d.format) + k] = r[k]
  <2> SUFFICES ASSUME NEW k \in 1 .. Len(r) PROVE f[Len(d.format) + k] = r[k]
    OBVIOUS
  <2>1. /\ Len(d.format) + k \in 1 .. Len(d.format) + Len(r)
        /\ ~(Len(d.format) + k <= Len(d.format)) /\ (Len(d.format) + k) - Len(d.format) = k
    BY <1>4, <1>9
  <2> QED
    BY <1>5, <1>9, <2>1
<1> QED
  BY <1>2, <1>3, <1>4, <1>5, <1>6, <1>7, <1>8, <1>9, <1>10, <1>11, <1>12 DEF d, f, r

(* What a directive is can be told from how the format goes on.            *)
LEMMA Kinds ==
  ASSUME NEW c \in Calls, NEW i \in 1 .. Len(c)
  PROVE  LET d == c[i]  f == From(Formats(c), i)
         IN  /\ f[1] # Percent =>
                  /\ d.known /\ d.prints = d.format /\ (i = Len(c) \/ d.args = <<>>)
                  /\ \A k \in 1 .. Len(d.format) : d.format[k] # Percent
             /\ f[1] = Percent /\ Len(f) > 1 =>
                  /\ f[2] = Percent => /\ d.known /\ d.format = <<Percent, Percent>>
                                       /\ d.prints = <<Percent>>
                                       /\ (i = Len(c) \/ d.args = <<>>)
                  /\ f[2] \in {"c", "s"} =>
                       /\ d.known /\ d.args = <<d.prints>>
                       /\ d.format \in {<<Percent, "c">>, <<Percent, "s">>}
                  /\ f[2] \notin {"c", "s", Percent} => ~d.known
             /\ f[1] = Percent /\ Len(f) = 1 => ~d.known
<1> DEFINE d == c[i]  f == From(Formats(c), i)
<1>1. IsDirective(d, i = Len(c))
  BY CallParts
<1>2. /\ d.format # <<>> /\ Len(d.format) \in Nat \ {0}
      /\ Len(f) \in Nat /\ Len(f) >= Len(d.format)
      /\ \A k \in 1 .. Len(d.format) : f[k] = d.format[k]
      /\ i = Len(c) => f = d.format
  <2> DEFINE r == From(Formats(c), i + 1)
  <2>1. /\ d.format # <<>> /\ Len(d.format) \in Nat \ {0}
        /\ Len(f) = Len(d.format) + Len(r) /\ Len(r) \in Nat
        /\ \A k \in 1 .. Len(d.format) : f[k] = d.format[k]
        /\ i = Len(c) => f = d.format
    BY Begins
  <2> HIDE DEF d, f, r
  <2> QED
    BY <2>1
<1>3. f[1] = d.format[1] /\ (Len(d.format) > 1 => f[2] = d.format[2])
  BY <1>2
<1> DEFINE text == /\ d.format # <<>> /\ d.prints = d.format
                   /\ \A k \in 1 .. Len(d.format) : d.format[k] # Percent
           doubled == d.format = <<Percent, Percent>> /\ d.prints = <<Percent>>
           conversion == d.format \in {<<Percent, "c">>, <<Percent, "s">>}
<1>4. CASE d.known /\ (i = Len(c) \/ d.args = <<>>) /\ text
  <2>1. f[1] # Percent
    BY <1>2, <1>3, <1>4
  <2> QED
    BY <1>4, <2>1
<1>5. CASE d.known /\ (i = Len(c) \/ d.args = <<>>) /\ doubled
  <2>1. f[1] = Percent /\ Len(f) > 1 /\ f[2] = Percent
    BY <1>2, <1>3, <1>5
  <2> QED
    BY <1>5, <2>1 DEF Percent
<1>6. CASE d.known /\ d.args = <<d.prints>> /\ conversion
  <2>1. Len(d.format) = 2 /\ d.format[1] = Percent /\ d.format[2] \in {"c", "s"}
    BY <1>6
  <2>2. f[1] = Percent /\ Len(f) > 1 /\ f[2] \in {"c", "s"}
    BY <1>2, <1>3, <2>1
  <2> QED
    BY <1>6, <2>2 DEF Percent
<1>7. CASE /\ ~d.known /\ d.format[1] = Percent
           /\ IF Len(d.format) = 1 THEN i = Len(c) ELSE d.format[2] \notin {"c", "s", Percent}
  <2>1. CASE Len(d.format) = 1
    BY <1>2, <1>3, <1>7, <2>1
  <2>2. CASE Len(d.format) # 1
    <3>1. Len(d.format) > 1 /\ d.format[2] \notin {"c", "s", Percent}
      <4>1. Len(d.format) > 1
        <5> DEFINE l == Len(d.format)
        <5>1. l \in Nat \ {0} /\ l # 1
          BY <1>2, <2>2, Zenon
        <5> HIDE DEF l
        <5>2. l > 1
          BY <5>1
        <5> QED
          BY <5>2 DEF l
      <4>2. d.format[2] \notin {"c", "s", Percent}
        BY <1>7, <2>2, Zenon
      <4> QED
        BY <4>1, <4>2
    <3>2. Len(f) > 1 /\ f[2] \notin {"c", "s", Percent} /\ f[1] = Percent
      BY <1>2, <1>3, <1>7, <3>1
    <3> QED
      BY <1>7, <3>2
  <2> QED
    BY <2>1, <2>2
<1> QED
  BY <1>1, <1>4, <1>5, <1>6, <1>7 DEF IsDirective

LEMMA StringsJoined ==
  /\ <<>> \in Strings /\ \A x \in Strings : <<>> \o x = x /\ x \o <<>> = x
  /\ \A x, y \in Strings : x \o y \in Strings
  /\ \A x, y, z \in Strings : (x \o y) \o z = x \o (y \o z)
<1> DEFINE T == Chars \cup {Newline}
           Laws(Q) == /\ <<>> \in Q /\ \A x \in Q : <<>> \o x = x /\ x \o <<>> = x
                      /\ \A x, y \in Q : x \o y \in Q
                      /\ \A x, y, z \in Q : (x \o y) \o z = x \o (y \o z)
<1> HIDE DEF T
<1>1. \A x, y, z \in Seq(T) : (x \o y) \o z = x \o (y \o z)
  BY Regrouped
<1>2. <<>> \in Seq(T) /\ \A x \in Seq(T) : <<>> \o x = x /\ x \o <<>> = x
  BY NothingJoined, EmptySeq
<1>3. \A x, y \in Seq(T) : x \o y \in Seq(T)
  BY Joined
<1>4. Laws(Seq(T))
  BY <1>1, <1>2, <1>3, Zenon
<1>5. Strings = Seq(T)
  BY DEF Strings, T
<1>6. Laws(Strings)
  <2> HIDE DEF Laws
  <2> QED
    BY <1>4, <1>5
<1> QED
  BY <1>6

LEMMA StringsCut ==
  ASSUME NEW a \in Strings, NEW b \in Strings
  PROVE  /\ SubSeq(a \o b, 1, Len(a)) = a
         /\ SubSeq(a \o b, Len(a) + 1, Len(a \o b)) = b
         /\ IsPrefix(a, a \o b)
         /\ Len(a \o b) = Len(a) + Len(b) /\ Len(a) \in Nat /\ Len(b) \in Nat
         /\ \A j \in 1 .. Len(a) + Len(b) :
              (a \o b)[j] = IF j <= Len(a) THEN a[j] ELSE b[j - Len(a)]
<1>1. PICK T : Strings = Seq(T)
  BY DEF Strings
<1>2. a \in Seq(T) /\ b \in Seq(T)
  BY <1>1
<1>3. /\ SubSeq(a \o b, 1, Len(a)) = a
      /\ SubSeq(a \o b, Len(a) + 1, Len(a \o b)) = b
      /\ IsPrefix(a, a \o b)
  BY <1>2, JoinedCut
<1>4. /\ Len(a \o b) = Len(a) + Len(b) /\ Len(a) \in Nat /\ Len(b) \in Nat
      /\ \A j \in 1 .. Len(a) + Len(b) :
           (a \o b)[j] = IF j <= Len(a) THEN a[j] ELSE b[j - Len(a)]
  BY <1>2, Joined
<1> QED
  BY <1>3, <1>4

NoPercent(t) == \A k \in 1 .. Len(t) : t[k] # Percent

LEMMA TextJoined ==
  ASSUME NEW x \in Strings, NEW y \in Strings, NoPercent(x), NoPercent(y)
  PROVE  NoPercent(x \o y)
<1> DEFINE u == x \o y  m == Len(x)  n == Len(y)
<1>1. /\ Len(u) = m + n /\ m \in Nat /\ n \in Nat
      /\ \A j \in 1 .. m + n : u[j] = IF j <= m THEN x[j] ELSE y[j - m]
  BY StringsCut
<1>2. /\ \A j \in 1 .. m : x[j] # Percent
      /\ \A j \in 1 .. n : y[j] # Percent
  BY DEF NoPercent
<1> HIDE DEF u, m, n
<1>3. ASSUME NEW k \in 1 .. Len(u) PROVE u[k] # Percent
  <2>1. CASE k <= m
    <3>1. k \in 1 .. m /\ u[k] = x[k]
      BY <1>1, <2>1
    <3> QED
      BY <1>2, <3>1
  <2>2. CASE ~(k <= m)
    <3>1. k - m \in 1 .. n /\ u[k] = y[k - m]
      BY <1>1, <2>2
    <3> QED
      BY <1>2, <3>1
  <2> QED
    BY <2>1, <2>2
<1> QED
  BY <1>3 DEF NoPercent, u

(* Text goes on to the next directive that is none, or to the end.         *)
LEMMA TextRun ==
  ASSUME NEW c \in Calls, NEW p \in 1 .. Len(c) + 1, p <= KnownIn(c) + 1
  PROVE  \E q \in p .. Len(c) + 1, t \in Strings :
           /\ q <= KnownIn(c) + 1 /\ NoPercent(t)
           /\ From(Formats(c), p) = t \o From(Formats(c), q)
           /\ From(Says(c), p) = t \o From(Says(c), q)
           /\ q <= Len(c) => /\ From(Formats(c), q)[1] = Percent
                             /\ From(Arguments(c), q) = From(Arguments(c), p)
<1> DEFINE N == Len(c)  F(i) == From(Formats(c), i)  W(i) == From(Says(c), i)
           A(i) == From(Arguments(c), i)
           Runs(i, q, t) == /\ q <= KnownIn(c) + 1 /\ NoPercent(t)
                            /\ F(i) = t \o F(q) /\ W(i) = t \o W(q)
                            /\ q <= N => F(q)[1] = Percent /\ A(q) = A(i)
           S == {n \in Nat : \A i \in 1 .. N + 1 :
                   i = N + 1 - n /\ i <= KnownIn(c) + 1 =>
                     \E q \in i .. N + 1, t \in Strings : Runs(i, q, t)}
<1>1. N \in Nat /\ KnownIn(c) \in Nat /\ \A i \in 1 .. N + 1 : F(i) \in Strings /\ W(i) \in Strings
  <2>1. N \in Nat /\ KnownIn(c) \in Nat
    BY CallParts, KnownFirst
  <2>2. \A s \in Seq(Strings) : \A i \in 1 .. Len(s) + 1 : From(s, i) \in Strings
    BY FromType DEF Strings
  <2> QED
    BY <2>1, <2>2, CallParts
<1>2. <<>> \in Strings /\ NoPercent(<<>>) /\ \A t \in Strings : <<>> \o t = t
  BY StringsJoined DEF NoPercent
<1>3. 0 \in S
  <2>1. ASSUME NEW i \in 1 .. N + 1, i = N + 1, i <= KnownIn(c) + 1
        PROVE  Runs(i, i, <<>>)
    <3>1. ~(i <= N)
      BY <1>1, <2>1
    <3> HIDE DEF N
    <3> QED
      BY <1>1, <1>2, <2>1, <3>1
  <2> HIDE DEF Runs
  <2> QED
    BY <1>1, <1>2, <2>1
<1>4. ASSUME NEW n \in Nat, n \in S PROVE n + 1 \in S
  <2> HIDE DEF Runs
  <2> SUFFICES ASSUME NEW i \in 1 .. N + 1, i = N + 1 - (n + 1), i <= KnownIn(c) + 1
               PROVE  \E q \in i .. N + 1, t \in Strings : Runs(i, q, t)
    OBVIOUS
  <2> USE DEF Runs
  <2>1. i \in 1 .. N /\ i + 1 \in 1 .. N + 1 /\ i + 1 = N + 1 - n
    BY <1>1
  <2> DEFINE d == c[i]
  <2>2. CASE F(i)[1] = Percent
    <3>1. Runs(i, i, <<>>)
      BY <1>1, <1>2, <2>2
    <3> HIDE DEF Runs
    <3> QED
      BY <1>1, <1>2, <3>1
  <2>3. CASE F(i)[1] # Percent
    <3>1. d.known /\ d.prints = d.format /\ (i = N \/ d.args = <<>>) /\ NoPercent(d.format)
      BY <2>1, <2>3, Kinds DEF NoPercent
    <3>2. /\ d.format \in Strings /\ F(i) = d.format \o F(i + 1) /\ F(i + 1) \in Strings
          /\ W(i) = (IF i <= KnownIn(c) THEN d.prints ELSE d.format) \o W(i + 1)
          /\ W(i + 1) \in Strings
          /\ A(i) = d.args \o A(i + 1) /\ A(i + 1) \in Seq(Strings)
      BY <2>1, Begins
    <3>3. W(i) = d.format \o W(i + 1)
      BY <3>1, <3>2
    <3>4. i <= KnownIn(c)
      <4>1. SUFFICES ASSUME i = KnownIn(c) + 1 PROVE FALSE
        BY <1>1
      <4>2. KnownIn(c) < Len(c)
        BY <1>1, <2>1, <4>1
      <4>3. ~d.known
        BY <4>1, <4>2, KnownFirst
      <4> QED
        BY <3>1, <4>3
    <3>5. i < N => A(i) = A(i + 1)
      <4>1. i < N => d.args = <<>>
        BY <1>1, <3>1
      <4>2. <<>> \o A(i + 1) = A(i + 1)
        BY <3>2, NothingJoined
      <4> QED
        BY <3>2, <4>1, <4>2
    <3>6. PICK q \in i + 1 .. N + 1, t \in Strings : Runs(i + 1, q, t)
      <4>1. i + 1 <= KnownIn(c) + 1
        BY <1>1, <3>4
      <4> HIDE DEF Runs
      <4> QED
        BY <1>4, <2>1, <4>1
    <3> DEFINE u == d.format \o t
    <3>7. u \in Strings /\ NoPercent(u)
      BY <3>1, <3>2, <3>6, StringsJoined, TextJoined
    <3>8. q \in i .. N + 1 /\ F(q) \in Strings /\ W(q) \in Strings
      BY <1>1, <2>1
    <3>9. \A x, y, z \in Strings : (x \o y) \o z = x \o (y \o z)
      BY StringsJoined
    <3>10. F(i) = u \o F(q)
      <4>1. F(i) = d.format \o (t \o F(q))
        BY <3>2, <3>6
      <4>2. (d.format \o t) \o F(q) = d.format \o (t \o F(q))
        <5>1. d.format \in Strings
          BY <3>2
        <5> HIDE DEF d, F, W
        <5> QED
          BY <3>8, <3>9, <5>1, Zenon
      <4> QED
        BY <4>1, <4>2
    <3>11. W(i) = u \o W(q)
      <4>1. W(i) = d.format \o (t \o W(q))
        BY <3>3, <3>6
      <4>2. (d.format \o t) \o W(q) = d.format \o (t \o W(q))
        <5>1. d.format \in Strings
          BY <3>2
        <5> HIDE DEF d, F, W
        <5> QED
          BY <3>8, <3>9, <5>1, Zenon
      <4> QED
        BY <4>1, <4>2
    <3>12. q <= N => F(q)[1] = Percent /\ A(q) = A(i)
      BY <1>1, <2>1, <3>5, <3>6
    <3>13. q <= KnownIn(c) + 1
      BY <3>6
    <3>14. Runs(i, q, u)
      BY <3>7, <3>10, <3>11, <3>12, <3>13
    <3> HIDE DEF Runs, u
    <3> QED
      BY <3>7, <3>8, <3>14
  <2> QED
    BY <2>2, <2>3
<1>5. N + 1 - p \in S
  <2>1. N + 1 - p \in Nat
    BY <1>1
  <2> HIDE DEF S
  <2> QED
    BY <1>3, <1>4, <2>1, SetInduction
<1>6. p = N + 1 - (N + 1 - p)
  BY <1>1
<1>7. \E q \in p .. N + 1, t \in Strings : Runs(p, q, t)
  <2> HIDE DEF Runs
  <2> QED
    BY <1>5, <1>6
<1> QED
  BY <1>7

-----------------------------------------------------------------------------
(* The rounds of the loop: each prints what the next directives say.       *)
AmountOf(s) == IF TextEnd(s) = 0 THEN Len(s) ELSE TextEnd(s) - 1

LEMMA TextAmount ==
  ASSUME NEW t \in Strings, NEW r \in Strings, NEW s, s = t \o r, Len(t) >= 1,
         \A k \in 2 .. Len(t) : t[k] # Percent, r # <<>> => r[1] = Percent
  PROVE  SubSeq(s, 1, AmountOf(s)) = t /\ SubSeq(s, AmountOf(s) + 1, Len(s)) = r
<1>1. /\ s \in Strings /\ Len(s) = Len(t) + Len(r) /\ Len(t) \in Nat /\ Len(r) \in Nat
      /\ \A j \in 1 .. Len(t) + Len(r) : s[j] = IF j <= Len(t) THEN t[j] ELSE r[j - Len(t)]
  BY Joined DEF Strings
<1> DEFINE I == {i \in 2 .. Len(s) : s[i] = Percent}
<1>2. TextEnd(s) = IF I # {} THEN Min(I) ELSE 0
  BY DEF TextEnd, SelectInSubSeq
<1>3. \A i \in I : i > Len(t)
  <2>1. ASSUME NEW i \in 2 .. Len(s), s[i] = Percent, ~(i > Len(t)) PROVE FALSE
    <3>1. i \in 2 .. Len(t) /\ i \in 1 .. Len(t) + Len(r) /\ i <= Len(t)
      BY <1>1, <2>1
    <3>2. s[i] = t[i]
      BY <1>1, <3>1
    <3> QED
      BY <2>1, <3>1, <3>2
  <2> QED
    BY <2>1
<1>4. r # <<>> => Len(t) + 1 \in I
  <2> SUFFICES ASSUME r # <<>> PROVE Len(t) + 1 \in I
    OBVIOUS
  <2>1. Len(r) \in Nat \ {0}
    BY EmptySeq DEF Strings
  <2>2. /\ Len(t) + 1 \in 2 .. Len(s) /\ Len(t) + 1 \in 1 .. Len(t) + Len(r)
        /\ ~(Len(t) + 1 <= Len(t)) /\ (Len(t) + 1) - Len(t) = 1
    BY <1>1, <2>1
  <2>3. s[Len(t) + 1] = r[(Len(t) + 1) - Len(t)]
    BY <1>1, <2>2
  <2> QED
    BY <2>2, <2>3
<1>5. AmountOf(s) = Len(t)
  <2>1. CASE r = <<>>
    <3>1. Len(r) = 0
      BY <2>1
    <3>2. I = {}
      BY <1>1, <1>3, <3>1
    <3> QED
      BY <1>1, <1>2, <3>1, <3>2 DEF AmountOf
  <2>2. CASE r # <<>>
    <3>1. I \in SUBSET Nat /\ I # {}
      <4>1. \A i \in 2 .. Len(s) : i \in Nat
        BY <1>1
      <4>2. I \in SUBSET Nat
        BY <4>1
      <4> HIDE DEF I
      <4> QED
        BY <1>4, <2>2, <4>2
    <3> HIDE DEF I
    <3>2. Min(I) \in I /\ \A j \in I : Min(I) <= j
      BY <3>1, LeastExists
    <3> DEFINE m == Min(I)
    <3> HIDE DEF m
    <3>3. m \in Nat /\ m > Len(t) /\ m <= Len(t) + 1
      BY <1>3, <1>4, <2>2, <3>1, <3>2 DEF m
    <3>4. TextEnd(s) = m
      BY <1>2, <3>1 DEF m
    <3> QED
      BY <1>1, <3>3, <3>4 DEF AmountOf
  <2> QED
    BY <2>1, <2>2
<1>6. SubSeq(s, 1, Len(t)) = t /\ SubSeq(s, Len(t) + 1, Len(s)) = r
  BY JoinedCut DEF Strings
<1> QED
  BY <1>5, <1>6

LEMMA StandsInFormat ==
  ASSUME call \in Calls, NEW p, Stands(call, p, format, args), format # <<>>
  PROVE  /\ p \in 1 .. Len(call) /\ p <= KnownIn(call) + 1
         /\ format = From(Formats(call), p) /\ args = From(Arguments(call), p)
         /\ Len(call) \in Nat /\ KnownIn(call) \in 0 .. Len(call)
         /\ format \in Strings /\ Len(format) \in Nat \ {0}
         /\ call[p].known => p <= KnownIn(call)
         /\ ~call[p].known => p = KnownIn(call) + 1
<1>1. Len(call) \in Nat /\ KnownIn(call) \in 0 .. Len(call)
  BY KnownFirst
<1>2. p \in 1 .. Len(call)
  <2>1. SUFFICES ASSUME p = Len(call) + 1 PROVE FALSE
    BY <1>1 DEF Stands
  <2>2. From(Formats(call), Len(call) + 1) = <<>>
    BY CallParts, FromEnd
  <2> QED
    BY <2>1, <2>2 DEF Stands
<1>3. p <= KnownIn(call) + 1
  BY <1>1, <1>2 DEF Stands
<1>4. format = From(Formats(call), p) /\ args = From(Arguments(call), p)
  BY <1>1, <1>2 DEF Stands
<1>5. format \in Strings
  BY <1>2, <1>4, Begins
<1>6. Len(format) \in Nat \ {0}
  BY <1>5, EmptySeq DEF Strings
<1>7. call[p].known => p <= KnownIn(call)
  <2>1. SUFFICES ASSUME p = KnownIn(call) + 1 PROVE ~call[p].known
    BY <1>1, <1>2, <1>3
  <2> QED
    BY <1>1, <1>2, <2>1, KnownFirst
<1>8. ~call[p].known => p = KnownIn(call) + 1
  <2>1. p <= KnownIn(call) => call[p].known
    BY <1>2, KnownFirst
  <2> QED
    BY <1>1, <1>2, <1>3, <2>1
<1> QED
  BY <1>1, <1>2, <1>3, <1>4, <1>5, <1>6, <1>7, <1>8

(* The tests of the format, by its first characters.                       *)
LEMMA FormatTests ==
  ASSUME format \in Strings, format # <<>>
  PROVE  /\ Starts(format, Percent) <=> format[1] = Percent
         /\ \A kind : IsConversion(kind) <=>
              format[1] = Percent /\ Len(format) > 1 /\ format[2] = kind
<1>1. Len(format) \in Nat \ {0}
  BY EmptySeq DEF Strings
<1>2. Head(format) = format[1]
  OBVIOUS
<1>3. /\ Tail(format) \in Strings /\ Len(Tail(format)) = Len(format) - 1
      /\ \A i \in 1 .. Len(Tail(format)) : Tail(format)[i] = format[i + 1]
  BY HeadTailProperties DEF Strings
<1>4. Tail(format) # <<>> <=> Len(format) > 1
  <2>1. Tail(format) # <<>> => Len(Tail(format)) \in Nat \ {0}
    BY <1>3, EmptySeq DEF Strings
  <2>2. Tail(format) = <<>> => Len(Tail(format)) = 0
    BY EmptySeq
  <2> QED
    BY <1>1, <1>3, <2>1, <2>2
<1>5. Len(format) > 1 => Head(Tail(format)) = format[2]
  <2> SUFFICES ASSUME Len(format) > 1 PROVE Head(Tail(format)) = format[2]
    OBVIOUS
  <2>1. Tail(format)[1] = format[1 + 1]
    BY <1>1, <1>3
  <2>2. Head(Tail(format)) = Tail(format)[1]
    OBVIOUS
  <2> QED
    BY <2>1, <2>2
<1>6. Starts(format, Percent) <=> format[1] = Percent
  BY <1>2 DEF Starts
<1>7. ASSUME NEW kind
      PROVE  IsConversion(kind) <=> format[1] = Percent /\ Len(format) > 1 /\ format[2] = kind
  BY <1>4, <1>5, <1>6 DEF IsConversion, Starts
<1> QED
  BY <1>6, <1>7

LEMMA TwoOfOne ==
  ASSUME NEW x
  PROVE  <<x>> \o <<x>> = <<x, x>>
<1> DEFINE a == <<x>>  b == <<x, x>>  S == {x}
<1>1. /\ a \in Seq(S) /\ Len(a) = 1 /\ a[1] = x
      /\ b \in Seq(S) /\ Len(b) = 2 /\ b[1] = x /\ b[2] = x
  OBVIOUS
<1> HIDE DEF a, b, S
<1>2. /\ a \o a \in Seq(S) /\ Len(a \o a) = Len(a) + Len(a)
      /\ \A j \in 1 .. Len(a) + Len(a) :
           (a \o a)[j] = IF j <= Len(a) THEN a[j] ELSE a[j - Len(a)]
  BY <1>1, Joined
<1> DEFINE c == a \o a
<1> HIDE DEF c
<1>3. c \in Seq(S) /\ Len(c) = 2 /\ \A j \in 1 .. 2 : c[j] = IF j <= 1 THEN a[j] ELSE a[j - 1]
  BY <1>1, <1>2 DEF c
<1>4. \A j \in 1 .. Len(c) : c[j] = b[j]
  BY <1>1, <1>3
<1>5. c = b
  BY <1>1, <1>3, <1>4, SeqEqual
<1> QED
  BY <1>5 DEF a, b, c

(* What a round leaves behind if it prints data.                           *)
Round(p, data, rest, as) ==
  \E q : /\ Stands(call, q, rest, as)
         /\ data \in Strings /\ From(Says(call), q) \in Strings
         /\ From(Says(call), p) = data \o From(Says(call), q)

LEMMA TextRound ==
  ASSUME call \in Calls, NEW p, Stands(call, p, format, args), format # <<>>,
         ~Starts(format, Percent) \/ IsConversion(Percent)
  PROVE  LET s == SkipPercent
         IN  Round(p, SubSeq(s, 1, AmountOf(s)), SubSeq(s, AmountOf(s) + 1, Len(s)), args)
<1> DEFINE N == Len(call)  F(i) == From(Formats(call), i)  W(i) == From(Says(call), i)
           A(i) == From(Arguments(call), i)  d == call[p]  s == SkipPercent
<1>1. /\ p \in 1 .. N /\ p <= KnownIn(call) + 1 /\ N \in Nat /\ KnownIn(call) \in 0 .. N
      /\ format = F(p) /\ args = A(p) /\ format \in Strings
      /\ d.known => p <= KnownIn(call)
  BY StandsInFormat
<1>2. \A i \in 1 .. N + 1 : F(i) \in Strings /\ W(i) \in Strings
  BY FromType, CallParts DEF Strings
<1> DEFINE Fits(q, t) ==
      /\ q \in p .. N + 1 /\ q <= KnownIn(call) + 1 /\ t \in Strings /\ Len(t) >= 1
      /\ \A k \in 2 .. Len(t) : t[k] # Percent
      /\ s = t \o F(q) /\ W(p) = t \o W(q)
      /\ q <= N => F(q)[1] = Percent /\ A(q) = args
<1>3. ASSUME format[1] # Percent PROVE \E q, t : Fits(q, t)
  <2>1. PICK q \in p .. N + 1, t \in Strings :
           /\ q <= KnownIn(call) + 1 /\ NoPercent(t)
           /\ F(p) = t \o F(q) /\ W(p) = t \o W(q)
           /\ q <= N => F(q)[1] = Percent /\ A(q) = A(p)
    <3>1. p \in 1 .. Len(call) + 1
      BY <1>1
    <3> QED
      BY <1>1, <3>1, TextRun
  <2>2. s = format
    BY <1>1, <1>3, FormatTests DEF SkipPercent
  <2>3. Len(t) \in Nat /\ (t = <<>> <=> Len(t) = 0)
    BY EmptySeq, LenProperties DEF Strings
  <2>4. t # <<>>
    <3>1. SUFFICES ASSUME t = <<>> PROVE FALSE
      OBVIOUS
    <3>2. F(p) = F(q)
      BY <1>1, <1>2, <2>1, <3>1, StringsJoined
    <3>3. q = N + 1 => F(q) = <<>>
      BY CallParts, FromEnd
    <3>4. ~(q <= N)
      BY <1>1, <1>3, <2>1, <3>2
    <3> QED
      BY <1>1, <2>1, <3>2, <3>3, <3>4
  <2>5. Len(t) >= 1 /\ \A k \in 2 .. Len(t) : t[k] # Percent
    BY <2>1, <2>3, <2>4 DEF NoPercent
  <2>6. Fits(q, t)
    BY <1>1, <2>1, <2>2, <2>5
  <2> HIDE DEF Fits
  <2> QED
    BY <2>6
<1>4. ASSUME format[1] = Percent PROVE \E q, t : Fits(q, t)
  <2>1. Len(format) > 1 /\ format[2] = Percent /\ s = Tail(format)
    BY <1>1, <1>4, FormatTests DEF SkipPercent
  <2>2. /\ d.known /\ d.format = <<Percent, Percent>> /\ d.prints = <<Percent>>
        /\ (p = N \/ d.args = <<>>)
    BY <1>1, <1>4, <2>1, Kinds
  <2>3. p + 1 \in 1 .. N + 1 /\ p + 1 <= KnownIn(call) + 1 /\ p <= KnownIn(call)
    BY <1>1, <2>2
  <2> DEFINE one == <<Percent>>
  <2>4. /\ F(p) = d.format \o F(p + 1) /\ F(p + 1) \in Strings
        /\ W(p) = d.prints \o W(p + 1) /\ W(p + 1) \in Strings
        /\ A(p) = d.args \o A(p + 1) /\ A(p + 1) \in Seq(Strings)
    <3>1. W(p) = (IF p <= KnownIn(call) THEN d.prints ELSE d.format) \o W(p + 1)
      BY <1>1, Begins
    <3> QED
      BY <1>1, <2>3, <3>1, Begins
  <2>5. one \in Strings /\ one \o one = d.format /\ Len(one) = 1 /\ one[1] = Percent
    <3>1. Percent \in Chars \cup {Newline}
      <4>1. 1 \in 1 .. Len(format)
        BY <2>1
      <4> QED
        BY <1>1, <1>4, <4>1, ElementOfSeq DEF Strings
    <3>2. one \o one = <<Percent, Percent>>
      BY TwoOfOne
    <3> QED
      BY <2>2, <3>1, <3>2 DEF Strings
  <2> HIDE DEF one, F, W, A, d
  <2>6. s = one \o F(p + 1)
    <3> DEFINE x == one \o F(p + 1)
    <3>1. x \in Strings /\ format = one \o x
      <4>1. F(p) = (one \o one) \o F(p + 1)
        BY <2>4, <2>5
      <4>2. (one \o one) \o F(p + 1) = one \o (one \o F(p + 1))
        BY <2>4, <2>5, StringsJoined, Zenon
      <4>3. one \o F(p + 1) \in Strings
        BY <2>4, <2>5, StringsJoined, Zenon
      <4> QED
        BY <1>1, <4>1, <4>2, <4>3
    <3> HIDE DEF x
    <3>2. SubSeq(one \o x, Len(one) + 1, Len(one \o x)) = x
      BY <2>5, <3>1, StringsCut
    <3>3. Tail(format) = SubSeq(format, 2, Len(format))
      BY <1>1, TailIsSubSeq DEF Strings
    <3>4. SubSeq(format, 2, Len(format)) = x
      BY <2>5, <3>1, <3>2
    <3> QED
      BY <2>1, <3>3, <3>4 DEF x
  <2>7. PICK q \in p + 1 .. N + 1, t \in Strings :
           /\ q <= KnownIn(call) + 1 /\ NoPercent(t)
           /\ F(p + 1) = t \o F(q) /\ W(p + 1) = t \o W(q)
           /\ q <= N => F(q)[1] = Percent /\ A(q) = A(p + 1)
    BY <2>3, TextRun DEF F, W, A
  <2>8. q \in 1 .. N + 1 /\ F(q) \in Strings /\ W(q) \in Strings
    BY <1>1, <1>2, <2>3, <2>7
  <2> DEFINE u == one \o t
  <2>9. s = u \o F(q) /\ W(p) = u \o W(q) /\ u \in Strings
    <3>1. s = one \o (t \o F(q)) /\ W(p) = one \o (t \o W(q))
      BY <2>2, <2>4, <2>5, <2>6, <2>7 DEF one
    <3>2. one \o (t \o F(q)) = (one \o t) \o F(q) /\ one \o (t \o W(q)) = (one \o t) \o W(q)
      <4>1. one \o (t \o F(q)) = (one \o t) \o F(q)
        BY <2>5, <2>8, StringsJoined, ZenonT(30)
      <4>2. one \o (t \o W(q)) = (one \o t) \o W(q)
        BY <2>5, <2>8, StringsJoined, ZenonT(30)
      <4> QED
        BY <4>1, <4>2
    <3> QED
      BY <2>5, <3>1, <3>2, StringsJoined
  <2>10. Len(u) >= 1 /\ \A k \in 2 .. Len(u) : u[k] # Percent
    <3>1. /\ Len(u) = 1 + Len(t) /\ Len(t) \in Nat
          /\ \A j \in 1 .. 1 + Len(t) : u[j] = IF j <= 1 THEN one[j] ELSE t[j - 1]
      <4>1. /\ Len(one \o t) = Len(one) + Len(t) /\ Len(t) \in Nat
            /\ \A j \in 1 .. Len(one) + Len(t) :
                 (one \o t)[j] = IF j <= Len(one) THEN one[j] ELSE t[j - Len(one)]
        BY <2>5, <2>7, StringsCut
      <4> HIDE DEF u
      <4>2. /\ Len(u) = Len(one) + Len(t) /\ Len(t) \in Nat
            /\ \A j \in 1 .. Len(one) + Len(t) :
                 u[j] = IF j <= Len(one) THEN one[j] ELSE t[j - Len(one)]
        BY <4>1 DEF u
      <4> QED
        BY <2>5, <4>2
    <3> HIDE DEF u
    <3>2. ASSUME NEW k \in 2 .. Len(u) PROVE u[k] # Percent
      <4>1. k \in 1 .. 1 + Len(t) /\ ~(k <= 1) /\ k - 1 \in 1 .. Len(t)
        BY <3>1
      <4>2. u[k] = t[k - 1]
        BY <3>1, <4>1
      <4> QED
        BY <2>7, <4>1, <4>2 DEF NoPercent
    <3> QED
      BY <3>1, <3>2
  <2>11. q <= N => F(q)[1] = Percent /\ A(q) = args
    <3>1. SUFFICES ASSUME q <= N PROVE A(p) = A(p + 1)
      BY <1>1, <2>7
    <3>2. d.args = <<>>
      BY <1>1, <2>2, <2>7, <3>1
    <3> QED
      BY <2>4, <3>2, NothingJoined
  <2>12. Fits(q, u)
    <3> HIDE DEF u
    <3> QED
      BY <1>1, <2>7, <2>8, <2>9, <2>10, <2>11
  <2> HIDE DEF Fits, u
  <2> QED
    BY <2>12
<1>5. PICK q, t : Fits(q, t)
  <2> HIDE DEF Fits
  <2> QED
    BY <1>3, <1>4
<1>6. q \in 1 .. N + 1 /\ F(q) \in Strings /\ W(q) \in Strings
  BY <1>1, <1>2, <1>5
<1>7. F(q) # <<>> => F(q)[1] = Percent
  <2>1. q = N + 1 => F(q) = <<>>
    BY CallParts, FromEnd
  <2>2. q <= N => F(q)[1] = Percent
    BY <1>5
  <2> HIDE DEF F, N, Fits
  <2> QED
    BY <1>1, <1>6, <2>1, <2>2
<1> HIDE DEF s
<1>8. SubSeq(s, 1, AmountOf(s)) = t /\ SubSeq(s, AmountOf(s) + 1, Len(s)) = F(q)
  BY <1>5, <1>6, <1>7, TextAmount
<1>9. Stands(call, q, F(q), args)
  BY <1>1, <1>5, <1>6 DEF Stands
<1>10. Round(p, t, F(q), args)
  BY <1>5, <1>6, <1>9 DEF Round
<1> QED
  BY <1>8, <1>10 DEF s

LEMMA ArgumentRound ==
  ASSUME call \in Calls, NEW p, Stands(call, p, format, args), format # <<>>,
         IsConversion("c") \/ IsConversion("s")
  PROVE  Round(p, Head(args), SubSeq(format, 3, Len(format)), Tail(args))
<1> DEFINE N == Len(call)  F(i) == From(Formats(call), i)  W(i) == From(Says(call), i)
           A(i) == From(Arguments(call), i)  d == call[p]
<1>1. /\ p \in 1 .. N /\ N \in Nat /\ KnownIn(call) \in 0 .. N
      /\ format = F(p) /\ args = A(p) /\ format \in Strings
      /\ d.known => p <= KnownIn(call)
  BY StandsInFormat
<1>2. format[1] = Percent /\ Len(format) > 1 /\ format[2] \in {"c", "s"}
  BY <1>1, FormatTests
<1>3. d.known /\ d.args = <<d.prints>> /\ d.format \in {<<Percent, "c">>, <<Percent, "s">>}
  BY <1>1, <1>2, Kinds
<1>4. /\ F(p) = d.format \o F(p + 1) /\ F(p + 1) \in Strings
      /\ W(p) = d.prints \o W(p + 1) /\ W(p + 1) \in Strings
      /\ A(p) = d.args \o A(p + 1) /\ A(p + 1) \in Seq(Strings)
      /\ d.prints \in Strings /\ d.format \in Strings /\ d.args \in Seq(Strings)
  <2>1. W(p) = (IF p <= KnownIn(call) THEN d.prints ELSE d.format) \o W(p + 1)
    BY <1>1, Begins
  <2> QED
    BY <1>1, <1>3, <2>1, Begins
<1>5. Len(d.format) = 2
  BY <1>3
<1>6. p + 1 \in 1 .. N + 1 /\ p + 1 <= KnownIn(call) + 1
  BY <1>1, <1>3
<1> HIDE DEF F, W, A, d
<1>7. SubSeq(format, 3, Len(format)) = F(p + 1)
  <2>1. SubSeq(d.format \o F(p + 1), Len(d.format) + 1, Len(d.format \o F(p + 1))) = F(p + 1)
    BY <1>4, StringsCut
  <2>2. format = d.format \o F(p + 1) /\ Len(d.format) + 1 = 3
    BY <1>1, <1>4, <1>5
  <2> QED
    BY <2>1, <2>2
<1>8. Head(args) = d.prints /\ Tail(args) = A(p + 1)
  <2>1. args = <<d.prints>> \o A(p + 1)
    BY <1>1, <1>3, <1>4
  <2> QED
    BY <1>4, <2>1, OneFirst
<1>9. Stands(call, p + 1, F(p + 1), A(p + 1))
  BY <1>1, <1>6 DEF Stands, F, A
<1> QED
  BY <1>1, <1>4, <1>7, <1>8, <1>9 DEF Round, W

LEMMA RestRound ==
  ASSUME call \in Calls, NEW p, Stands(call, p, format, args), format # <<>>,
         Starts(format, Percent), \A kind \in {"c", "s", Percent} : ~IsConversion(kind)
  PROVE  Round(p, format, <<>>, args)
<1> DEFINE N == Len(call)  K == KnownIn(call)
           W(i) == From(Says(call), i)  F(i) == From(Formats(call), i)
<1>1. /\ p \in 1 .. N /\ N \in Nat /\ K \in 0 .. N /\ format = F(p) /\ format \in Strings
      /\ Len(format) \in Nat \ {0} /\ ~call[p].known => p = K + 1
  BY StandsInFormat
<1>2. format[1] = Percent /\ (Len(format) > 1 => format[2] \notin {"c", "s", Percent})
  BY <1>1, FormatTests
<1>3. p = K + 1
  <2>1. CASE Len(format) > 1
    <3>1. ~call[p].known
      BY <1>1, <1>2, <2>1, Kinds
    <3> QED
      BY <1>1, <3>1
  <2>2. CASE Len(format) = 1
    <3>1. ~call[p].known
      BY <1>1, <1>2, <2>2, Kinds
    <3> QED
      BY <1>1, <3>1
  <2> HIDE DEF N, K, F, W
  <2>3. Len(format) > 1 \/ Len(format) = 1
    <3> DEFINE l == Len(format)
    <3>1. l \in Nat \ {0}
      BY <1>1
    <3> HIDE DEF l
    <3>2. l > 1 \/ l = 1
      BY <3>1
    <3> QED
      BY <3>2 DEF l
  <2> QED
    BY <2>1, <2>2, <2>3
<1>4. W(p) = F(p)
  <2> DEFINE s == Says(call)  f == Formats(call)
             x == SubSeq(s, p, N)  y == SubSeq(f, p, N)
  <2>1. /\ s \in Seq(Strings) /\ Len(s) = N /\ f \in Seq(Strings) /\ Len(f) = N
        /\ \A i \in 1 .. N : s[i] \in Strings /\ f[i] \in Strings
        /\ \A i \in 1 .. N : i > K => s[i] = f[i]
    <3>1. s \in Seq(Strings) /\ Len(s) = N /\ f \in Seq(Strings) /\ Len(f) = N
      BY CallParts
    <3>2. \A i \in 1 .. N : s[i] \in Strings /\ f[i] \in Strings
      BY <3>1, ElementOfSeq
    <3>3. \A i \in 1 .. N : i > K => s[i] = f[i]
      BY <1>1, CallParts
    <3> QED
      BY <3>1, <3>2, <3>3
  <2> HIDE DEF s, f, N, K
  <2>2. /\ x \in Seq(Strings) /\ Len(x) = (IF p <= N THEN N - p + 1 ELSE 0)
        /\ \A i \in 1 .. N - p + 1 : x[i] = s[p + i - 1]
    BY <1>1, <2>1, SubSeqProperties
  <2>3. /\ y \in Seq(Strings) /\ Len(y) = (IF p <= N THEN N - p + 1 ELSE 0)
        /\ \A i \in 1 .. N - p + 1 : y[i] = f[p + i - 1]
    BY <1>1, <2>1, SubSeqProperties
  <2> HIDE DEF x, y
  <2>4. ASSUME NEW i \in 1 .. Len(x) PROVE x[i] = y[i]
    <3>1. i \in 1 .. N - p + 1 /\ p + i - 1 \in 1 .. N /\ p + i - 1 > K
      BY <1>1, <1>3, <2>2
    <3> QED
      BY <2>1, <2>2, <2>3, <3>1
  <2>5. x = y
    BY <2>2, <2>3, <2>4, SeqEqual
  <2> QED
    BY <2>1, <2>5 DEF From, x, y, s, f
<1>5. F(N + 1) = <<>> /\ W(N + 1) = <<>>
  BY CallParts, FromEnd
<1>6. Stands(call, N + 1, <<>>, args)
  BY <1>1, <1>5 DEF Stands
<1>7. <<>> \in Strings /\ format \o <<>> = format
  BY <1>1, StringsJoined
<1> HIDE DEF N
<1>8. W(p) = format \o W(N + 1) /\ W(N + 1) \in Strings
  BY <1>1, <1>4, <1>5, <1>7
<1> QED
  BY <1>1, <1>6, <1>8 DEF Round

-----------------------------------------------------------------------------
(* While the call is under way, what it has printed, what the terminal is  *)
(* about to be given and what the directives from the next one on say are  *)
(* together what is expected; INT_MAX has not been exceeded.               *)
Under(p) ==
  /\ Stands(call, p, format, args)
  /\ (put \o pending) \o From(Says(call), p) = Expected
  /\ written = Len(put) + Len(pending) /\ written <= INT_MAX

PrintInv ==
  /\ call \in Calls /\ put \in Strings /\ pending \in Strings
  /\ ~returned => \E p : Under(p)
  /\ returned => pending = <<>>
  /\ PrintsWhatTheFormatSays

LEMMA InitPrints == Init => PrintInv
<1> SUFFICES ASSUME Init PROVE PrintInv
  OBVIOUS
<1>1. call \in Calls /\ put = <<>> /\ pending = <<>> /\ ~returned /\ written = 0
  BY DEF Init
<1>2. INT_MAX \in Nat /\ Len(call) \in Nat /\ KnownIn(call) \in 0 .. Len(call)
  BY <1>1, ConsoleAssumption, KnownFirst
<1>3. format = FlattenSeq(Formats(call)) /\ args = FlattenSeq(Arguments(call))
  BY DEF Init, Fields, Formats, Arguments
<1>4. format = From(Formats(call), 1) /\ args = From(Arguments(call), 1)
  BY <1>1, <1>3, CallParts, FromEnd
<1>5. Stands(call, 1, format, args)
  BY <1>2, <1>4 DEF Stands
<1>6. Expected = From(Says(call), 1) /\ Expected \in Strings
  BY <1>1, ExpectedIsSaid
<1>7. <<>> \in Strings /\ <<>> \o <<>> = <<>> /\ <<>> \o Expected = Expected /\ Len(<<>>) = 0
  BY <1>6, StringsJoined
<1>8. Under(1)
  <2>1. (put \o pending) \o From(Says(call), 1) = Expected
    BY <1>1, <1>6, <1>7
  <2>2. written = Len(put) + Len(pending) /\ written <= INT_MAX
    BY <1>1, <1>2, <1>7
  <2> QED
    BY <1>5, <2>1, <2>2 DEF Under
<1> QED
  BY <1>1, <1>7, <1>8 DEF PrintInv, PrintsWhatTheFormatSays

LEMMA RoundKeeps ==
  ASSUME PrintInv, ~returned, pending = <<>>, UNCHANGED put,
         NEW p, Under(p), NEW data, NEW rest, NEW as, Round(p, data, rest, as),
         \/ print(data, rest) /\ args' = as
         \/ Overflow(data)
  PROVE  PrintInv'
<1> DEFINE W(i) == From(Says(call), i)
<1>1. PICK q : /\ Stands(call, q, rest, as) /\ data \in Strings /\ W(q) \in Strings
               /\ W(p) = data \o W(q)
  BY DEF Round
<1>2. call' = call /\ put' = put /\ call \in Calls /\ put \in Strings
  BY DEF PrintInv, print, Overflow
<1>3. INT_MAX \in Nat /\ Len(put) \in Nat /\ Len(data) \in Nat
  BY <1>1, <1>2, ConsoleAssumption, LenProperties DEF Strings
<1>4. /\ put \o <<>> = put /\ <<>> \in Strings /\ Len(<<>>) = 0
      /\ put \o data \in Strings /\ data \o W(q) \in Strings
      /\ (put \o data) \o W(q) = put \o (data \o W(q))
  <2> HIDE DEF W
  <2> QED
    BY <1>1, <1>2, StringsJoined
<1>5. written = Len(put) /\ Expected = put \o (data \o W(q))
  BY <1>1, <1>3, <1>4 DEF Under
<1>6. Expected' = Expected
  BY <1>2 DEF Expected, Fields, SelectInSeq
<1> HIDE DEF W
<1>7. CASE print(data, rest) /\ args' = as
  <2>1. /\ pending' = data /\ written' = written + Len(data) /\ format' = rest
        /\ returned' = returned /\ Len(data) <= INT_MAX - written
    BY <1>7 DEF print, maxrem
  <2>2. Stands(call, q, rest, as)'
    BY <1>1, <1>2
  <2>3. Stands(call', q, format', args')
    BY <1>1, <1>2, <1>7, <2>1
  <2>4. (put' \o pending') \o From(Says(call'), q) = Expected'
    BY <1>2, <1>4, <1>5, <1>6, <2>1 DEF W
  <2>5. written' = Len(put') + Len(pending') /\ written' <= INT_MAX
    BY <1>2, <1>3, <1>5, <2>1
  <2>6. Under(q)'
    BY <2>3, <2>4, <2>5 DEF Under
  <2> QED
    BY <1>1, <1>2, <2>1, <2>6 DEF PrintInv, PrintsWhatTheFormatSays
<1>8. CASE Overflow(data)
  <2>1. /\ returned' = TRUE /\ result' = -1 /\ pending' = pending
        /\ Len(data) > INT_MAX - written
    BY <1>8 DEF Overflow, maxrem
  <2>2. /\ IsPrefix(put, Expected)
        /\ Len(Expected) = Len(put) + (Len(data) + Len(W(q))) /\ Len(W(q)) \in Nat
    <3>1. IsPrefix(put, Expected) /\ Len(Expected) = Len(put) + Len(data \o W(q))
      BY <1>2, <1>4, <1>5, StringsCut
    <3>2. Len(data \o W(q)) = Len(data) + Len(W(q)) /\ Len(W(q)) \in Nat
      BY <1>1, StringsCut
    <3> QED
      BY <3>1, <3>2
  <2>3. Len(Expected) > INT_MAX /\ Len(put) <= INT_MAX /\ Len(Expected) \in Nat
    <3>1. written <= INT_MAX
      BY DEF Under
    <3> QED
      BY <1>3, <1>5, <2>1, <2>2, <3>1
  <2>4. IsPrefix(put', Expected') /\ Len(put') <= INT_MAX /\ ~(Len(Expected') <= INT_MAX)
    BY <1>2, <1>3, <1>6, <2>2, <2>3
  <2>5. PrintsWhatTheFormatSays'
    BY <2>1, <2>4 DEF PrintsWhatTheFormatSays
  <2> QED
    BY <1>2, <1>4, <2>1, <2>5 DEF PrintInv
<1> QED
  BY <1>7, <1>8

LEMMA PrintfKeeps ==
  ASSUME PrintInv, _printf
  PROVE  PrintInv'
<1>1. ~returned /\ pending = <<>> /\ UNCHANGED put
  BY DEF _printf
<1>2. PICK p : Under(p)
  BY <1>1 DEF PrintInv
<1>3. call \in Calls /\ Stands(call, p, format, args) /\ put \in Strings
  BY <1>2 DEF PrintInv, Under
<1>4. CASE PrintText
  <2> DEFINE s == SkipPercent  data == SubSeq(s, 1, AmountOf(s))
             rest == SubSeq(s, AmountOf(s) + 1, Len(s))
  <2>1. format # <<>> /\ (~Starts(format, Percent) \/ IsConversion(Percent))
    BY <1>4 DEF PrintText
  <2>2. (print(data, rest) /\ UNCHANGED args) \/ Overflow(data)
    BY <1>4 DEF PrintText, AmountOf
  <2>3. Round(p, data, rest, args)
    BY <1>3, <2>1, TextRound
  <2> HIDE DEF data, rest
  <2>4. (print(data, rest) /\ args' = args) \/ Overflow(data)
    BY <2>2
  <2> QED
    BY <1>1, <1>2, <2>3, <2>4, RoundKeeps
<1>5. CASE PrintArgument
  <2> DEFINE data == Head(args)  rest == SubSeq(format, 3, Len(format))
  <2>1. IsConversion("c") \/ IsConversion("s")
    BY <1>5 DEF PrintArgument
  <2>2. format # <<>>
    BY <2>1 DEF IsConversion, Starts
  <2>3. (print(data, rest) /\ args' = Tail(args)) \/ Overflow(data)
    BY <1>5 DEF PrintArgument
  <2>4. Round(p, data, rest, Tail(args))
    BY <1>3, <2>1, <2>2, ArgumentRound
  <2> HIDE DEF data, rest
  <2> QED
    BY <1>1, <1>2, <2>3, <2>4, RoundKeeps
<1>6. CASE PrintRest
  <2>1. Starts(format, Percent) /\ \A kind \in {"c", "s", Percent} : ~IsConversion(kind)
    BY <1>6 DEF PrintRest
  <2>2. format # <<>>
    BY <2>1 DEF Starts
  <2>3. (print(format, <<>>) /\ args' = args) \/ Overflow(format)
    BY <1>6 DEF PrintRest
  <2>4. Round(p, format, <<>>, args)
    BY <1>3, <2>1, <2>2, RestRound
  <2> QED
    BY <1>1, <1>2, <2>3, <2>4, RoundKeeps
<1>7. CASE Return
  <2>1. format = <<>> /\ returned' = TRUE /\ result' = written
        /\ UNCHANGED <<call, pending, put>>
    BY <1>1, <1>7 DEF Return
  <2>2. p = Len(call) + 1
    <3>1. SUFFICES ASSUME p \in 1 .. Len(call) PROVE FALSE
      BY <1>3, KnownFirst DEF Stands
    <3>2. /\ Len(From(Formats(call), p)) =
               Len(call[p].format) + Len(From(Formats(call), p + 1))
          /\ Len(call[p].format) \in Nat \ {0}
          /\ Len(From(Formats(call), p + 1)) \in Nat
      BY <1>3, <3>1, Begins
    <3>3. Len(From(Formats(call), p)) = 0
      BY <1>3, <2>1 DEF Stands
    <3> DEFINE l == Len(call[p].format)  m == Len(From(Formats(call), p + 1))
    <3>4. l + m = 0 /\ l \in Nat \ {0} /\ m \in Nat
      BY <3>2, <3>3
    <3> HIDE DEF l, m
    <3> QED
      BY <3>4
  <2>3. From(Says(call), p) = <<>>
    BY <1>3, <2>2, CallParts, FromEnd
  <2>4. /\ put \o <<>> = put /\ Len(<<>>) = 0 /\ Len(put) \in Nat
        /\ IsPrefix(put, put \o <<>>)
    BY <1>3, StringsJoined, StringsCut
  <2>5. Expected = put /\ IsPrefix(put, Expected)
    BY <1>1, <1>2, <2>3, <2>4 DEF Under
  <2>6. written = Len(put) /\ Len(put) <= INT_MAX
    BY <1>1, <1>2, <2>4 DEF Under
  <2>7. Expected' = Expected
    BY <2>1 DEF Expected, Fields, SelectInSeq
  <2>8. PrintsWhatTheFormatSays'
    BY <2>1, <2>5, <2>6, <2>7 DEF PrintsWhatTheFormatSays
  <2> QED
    BY <1>1, <1>3, <2>1, <2>8 DEF PrintInv
<1> QED
  BY <1>4, <1>5, <1>6, <1>7 DEF _printf

LEMMA WriteKeeps ==
  ASSUME PrintInv, terminal_write
  PROVE  PrintInv'
<1> DEFINE c == Head(pending)
<1>1. pending # <<>> /\ pending' = Tail(pending) /\ put' = Append(put, c) /\ UNCHANGED printfVars
  BY DEF terminal_write
<1>2. ~returned /\ put \in Strings /\ pending \in Strings /\ call \in Calls
  BY <1>1 DEF PrintInv
<1>3. UNCHANGED <<call, format, args, written, returned, result>>
  BY <1>1 DEF printfVars
<1>4. PICK T : Strings = Seq(T)
  BY DEF Strings
<1>5. c \in T /\ Tail(pending) \in Strings /\ pending = <<c>> \o Tail(pending)
  <2>1. c \in T /\ Tail(pending) \in Seq(T)
    BY <1>1, <1>2, <1>4, HeadTailProperties
  <2>2. Len(pending) \in Nat \ {0} /\ c = pending[1] /\ pending \in Seq(T)
    BY <1>1, <1>2, <1>4, EmptySeq
  <2>3. SubSeq(pending, 1, Len(pending)) = <<pending[1]>> \o SubSeq(pending, 1 + 1, Len(pending))
    BY <2>2, SubSeqRecursiveFirst
  <2>4. SubSeq(pending, 1, Len(pending)) = pending
    BY <2>2, SubSeqFull
  <2>5. Tail(pending) = SubSeq(pending, 2, Len(pending))
    BY <1>1, <2>2, TailIsSubSeq
  <2> QED
    BY <1>4, <2>1, <2>2, <2>3, <2>4, <2>5
<1> HIDE DEF c
<1>6. put' = put \o <<c>> /\ put' \in Strings /\ <<c>> \in Strings /\ Len(<<c>>) = 1
  <2>1. <<c>> \in Strings /\ Len(<<c>>) = 1
    BY <1>4, <1>5
  <2>2. Append(put, c) = put \o <<c>>
    BY <1>2, <1>4, <1>5, AppendIsConcat
  <2> QED
    BY <1>1, <1>2, <2>1, <2>2, StringsJoined
<1>7. put' \o pending' = put \o pending
  <2>1. (put \o <<c>>) \o Tail(pending) = put \o (<<c>> \o Tail(pending))
    BY <1>2, <1>5, <1>6, StringsJoined, ZenonT(30)
  <2> QED
    BY <1>1, <1>5, <1>6, <2>1
<1>8. Len(put') + Len(pending') = Len(put) + Len(pending)
  <2>1. Len(put') = Len(put) + 1 /\ Len(put) \in Nat
    BY <1>2, <1>6, StringsCut
  <2>2. Len(pending) = 1 + Len(pending') /\ Len(pending') \in Nat
    BY <1>1, <1>5, <1>6, StringsCut
  <2> QED
    BY <2>1, <2>2
<1>9. Expected' = Expected
  BY <1>3 DEF Expected, Fields, SelectInSeq
<1>10. PICK p : Under(p)
  BY <1>2 DEF PrintInv
<1>11. Under(p)'
  <2>1. Stands(call', p, format', args')
    BY <1>3, <1>10 DEF Under
  <2>2. (put' \o pending') \o From(Says(call'), p) = Expected'
    BY <1>3, <1>7, <1>9, <1>10 DEF Under
  <2>3. written' = Len(put') + Len(pending') /\ written' <= INT_MAX
    BY <1>3, <1>8, <1>10 DEF Under
  <2> QED
    BY <2>1, <2>2, <2>3 DEF Under
<1>12. call' \in Calls /\ put' \in Strings /\ pending' \in Strings /\ ~returned'
  BY <1>1, <1>2, <1>3, <1>5, <1>6
<1> QED
  BY <1>11, <1>12 DEF PrintInv, PrintsWhatTheFormatSays

LEMMA OthersKeep ==
  ASSUME PrintInv, UNCHANGED <<printfVars, pending, put>>
  PROVE  PrintInv'
<1>1. UNCHANGED <<call, format, args, written, returned, result, pending, put>>
  BY DEF printfVars
<1>2. Expected' = Expected
  BY <1>1 DEF Expected, Fields, SelectInSeq
<1>3. \A p : Under(p) => Under(p)'
  <2> SUFFICES ASSUME NEW p, Under(p) PROVE Under(p)'
    OBVIOUS
  <2>1. Stands(call', p, format', args')
    BY <1>1 DEF Under
  <2>2. (put' \o pending') \o From(Says(call'), p) = Expected'
    BY <1>1, <1>2 DEF Under
  <2>3. written' = Len(put') + Len(pending') /\ written' <= INT_MAX
    BY <1>1 DEF Under
  <2> QED
    BY <2>1, <2>2, <2>3 DEF Under
<1>4. PrintsWhatTheFormatSays'
  BY <1>1, <1>2 DEF PrintInv, PrintsWhatTheFormatSays
<1> QED
  BY <1>1, <1>3, <1>4 DEF PrintInv

LEMMA PrintStep == PrintInv /\ [Next]_vars => PrintInv'
<1> SUFFICES ASSUME PrintInv, [Next]_vars PROVE PrintInv'
  OBVIOUS
<1>1. CASE _printf
  BY <1>1, PrintfKeeps
<1>2. CASE terminal_write
  BY <1>2, WriteKeeps
<1>3. CASE Scroll
  BY <1>3, OthersKeep DEF Scroll
<1>4. CASE UNCHANGED vars
  BY <1>4, OthersKeep DEF vars
<1> QED
  BY <1>1, <1>2, <1>3, <1>4 DEF Next

(* A call of _printf that succeeds has printed what its format says and    *)
(* returned its length; one that fails has printed a beginning of it, and  *)
(* only fails if it cannot count the whole: for every format, all          *)
(* arguments, every INT_MAX and a screen of any size.  At the start of a   *)
(* round a number of directives, and no part of one, has been printed:     *)
(* text ends where a directive begins, a doubled percent sign counts as    *)
(* text from its second half, and the rest is printed only from an unknown *)
(* directive on.                                                           *)
THEOREM PrintsTheFormat == Spec => []PrintsWhatTheFormatSays
<1>1. PrintInv => PrintsWhatTheFormatSays
  BY DEF PrintInv
<1> QED
  BY <1>1, InitPrints, PrintStep, PTL DEF Spec

-----------------------------------------------------------------------------
(* _printf uses the terminal as any caller may: it is given characters of  *)
(* the texts, one after the other, and scrolls between them.               *)
THEOREM PrintsOnTheTerminal == Spec => TerminalSpec
<1>1. Init => PrintInv /\ TerminalInit
  BY InitPrints DEF Init
<1>2. PrintInv /\ [Next]_vars => PrintInv'
  BY PrintStep
<1>3. PrintInv /\ [Next]_vars => [TerminalNext]_terminalVars
  <2> SUFFICES ASSUME PrintInv, [Next]_vars PROVE [TerminalNext]_terminalVars
    OBVIOUS
  <2>1. CASE _printf
    BY <2>1 DEF _printf
  <2>2. CASE terminal_write
    <3>1. pending # <<>> /\ terminal_putchar(Head(pending))
      BY <2>2 DEF terminal_write
    <3>2. Head(pending) \in Chars \cup {Newline}
      BY <3>1, HeadTailProperties DEF PrintInv, Strings
    <3> QED
      BY <3>1, <3>2 DEF TerminalNext
  <2>3. CASE Scroll
    BY <2>3 DEF Scroll, TerminalNext
  <2>4. CASE UNCHANGED vars
    BY <2>4 DEF vars
  <2> QED
    BY <2>1, <2>2, <2>3, <2>4 DEF Next
<1> QED
  BY <1>1, <1>2, <1>3, PTL DEF Spec, TerminalSpec

(* Whatever _printf is called with, the screen shows the end of what has   *)
(* been printed whenever no character is being put.                        *)
THEOREM PrintedIsOnTheScreen == Spec => []ShowsTheLastLines
BY PrintsOnTheTerminal, ScreenCorrect, PTL
-----------------------------------------------------------------------------
(* MyToyOS1, with the variables of cmain, of its screen and of printf.     *)
Made == WordSize \in Nat /\ \A info \in Infos : Multiboot!WellMade(info)
ScreenMade == COLUMNS \in Nat \ {0} /\ LINES \in Nat \ {0}

LEMMA MadeHolds == Made /\ ScreenMade
  BY BootAssumption DEF Made, ScreenMade

(* What printf is given.                                                   *)
Token == {"NL", "invalid", "cmdline", "string", "both", "Halted."}
Argument ==
  ({"u", "x", "0x"} \X Multiboot!Long)
  \cup ({"d"} \X {n \in Multiboot!Long : 2 * n < WordSize})
  \cup ({"text"} \X Token)

LEMMA SameFlatten == \A s : Multiboot!FlattenSeq(s) = FlattenSeq(s)
  BY DEF Multiboot!FlattenSeq, FlattenSeq

(* The lines of the first modules and of the first regions.                *)
ModulePart(n) ==
  FlattenSeq([k \in 1 .. n |-> Multiboot!Line(Multiboot!ModuleLine(mbi.mods[k]))])
RegionPart(n) ==
  FlattenSeq([k \in 1 .. n |-> Multiboot!Line(Multiboot!RegionLine(mbi.regions[k]))])

LEMMA OneLineMore ==
  ASSUME NEW S, NEW n \in Nat, NEW f, \A k \in 1 .. n + 1 : f[k] \in Seq(S)
  PROVE  /\ FlattenSeq([k \in 1 .. n |-> f[k]]) \in Seq(S)
         /\ FlattenSeq([k \in 1 .. n + 1 |-> f[k]])
              = FlattenSeq([k \in 1 .. n |-> f[k]]) \o f[n + 1]
<1> DEFINE s == [k \in 1 .. n |-> f[k]]  t == [k \in 1 .. n + 1 |-> f[k]]
<1>1. /\ s \in Seq(Seq(S)) /\ Len(s) = n /\ t \in Seq(Seq(S)) /\ Len(t) = n + 1
      /\ <<f[n + 1]>> \in Seq(Seq(S)) /\ Len(<<f[n + 1]>>) = 1
  OBVIOUS
<1>2. \A k \in 1 .. n + 1 : t[k] = IF k <= n THEN s[k] ELSE <<f[n + 1]>>[k - n]
  OBVIOUS
<1> DEFINE x == <<f[n + 1]>>  w == s \o x
<1> HIDE DEF s, t, x
<1>3. t = s \o x
  <2>1. /\ w \in Seq(Seq(S)) /\ Len(w) = n + 1
        /\ \A j \in 1 .. n + 1 : w[j] = IF j <= n THEN s[j] ELSE x[j - n]
    BY <1>1, Joined DEF x
  <2>2. \A j \in 1 .. n + 1 : w[j] = t[j]
    BY <1>2, <2>1 DEF x
  <2> HIDE DEF w
  <2>3. w = t
    BY <1>1, <2>1, <2>2, SeqEqual
  <2> QED
    BY <2>3 DEF w
<1>4. FlattenSeq(t) = FlattenSeq(s) \o FlattenSeq(<<f[n + 1]>>) /\ FlattenSeq(s) \in Seq(S)
  BY <1>1, <1>3, FlatJoined DEF x
<1>5. FlattenSeq(<<f[n + 1]>>) = f[n + 1]
  BY FlatOne
<1> QED
  BY <1>4, <1>5 DEF s, t

(* A sequence that ends in another, one that contains another.             *)
EndsIn(p, w) == \E h \in Seq(Argument) : p = h \o w
Holds(p, w) == \E h, t \in Seq(Argument) : p = h \o (w \o t)

LEMMA PrintedMore ==
  ASSUME NEW p \in Seq(Argument), NEW w \in Seq(Argument), NEW g \in Seq(Argument)
  PROVE  /\ p \o g \in Seq(Argument)
         /\ EndsIn(p, <<>>)
         /\ EndsIn(p, w) => EndsIn(p \o g, w \o g) /\ Holds(p, w)
         /\ Holds(p, w) => Holds(p \o g, w)
<1> DEFINE S == Argument
<1>0. \A a, b, c \in Seq(Argument) : (a \o b) \o c = a \o (b \o c)
  <2> HIDE DEF S
  <2>1. ASSUME NEW a \in Seq(S), NEW b \in Seq(S), NEW c \in Seq(S)
        PROVE  (a \o b) \o c = a \o (b \o c)
    BY Regrouped
  <2>2. \A a, b, c \in Seq(S) : (a \o b) \o c = a \o (b \o c)
    BY <2>1, Zenon
  <2> QED
    BY <2>2, Zenon DEF S
<1>1. p \o g \in Seq(Argument) /\ w \o g \in Seq(Argument) /\ <<>> \in Seq(Argument)
  BY Joined, NothingJoined
<1>2. EndsIn(p, <<>>)
  BY NothingJoined DEF EndsIn
<1>3. ASSUME EndsIn(p, w) PROVE EndsIn(p \o g, w \o g) /\ Holds(p, w)
  <2>1. PICK h \in Seq(Argument) : p = h \o w
    BY <1>3 DEF EndsIn
  <2>2. p \o g = h \o (w \o g)
    BY <1>0, <2>1, ZenonT(30)
  <2>3. w \o <<>> = w
    BY NothingJoined
  <2> QED
    BY <1>1, <2>1, <2>2, <2>3 DEF EndsIn, Holds
<1>4. ASSUME Holds(p, w) PROVE Holds(p \o g, w)
  <2>1. PICK h, t \in Seq(Argument) : p = h \o (w \o t)
    BY <1>4 DEF Holds
  <2>2. w \o t \in Seq(Argument) /\ t \o g \in Seq(Argument)
    BY Joined
  <2>3. p \o g = h \o ((w \o t) \o g)
    <3>1. PICK m \in Seq(Argument) : m = w \o t
      BY <2>2
    <3>2. (h \o m) \o g = h \o (m \o g)
      BY <1>0, ZenonT(30)
    <3> QED
      BY <2>1, <3>1, <3>2
  <2>4. (w \o t) \o g = w \o (t \o g)
    BY <1>0, ZenonT(30)
  <2> QED
    BY <2>2, <2>3, <2>4 DEF Holds
<1> QED
  BY <1>1, <1>2, <1>3, <1>4

(* printf gets texts and numbers.                                          *)
LEMMA Given ==
  /\ \A token \in Token : Multiboot!Text(token) \in Argument
  /\ \A g \in Seq(Argument) : Multiboot!Line(g) \in Seq(Argument)
  /\ \A n \in Multiboot!Long, c \in {"u", "x", "0x"} : <<c, n>> \in Argument
  /\ \A n \in Multiboot!Long : 2 * n < WordSize => <<"d", n>> \in Argument
<1>1. \A token \in Token : Multiboot!Text(token) \in Argument
  BY DEF Multiboot!Text, Argument
<1>2. ASSUME NEW g \in Seq(Argument) PROVE Multiboot!Line(g) \in Seq(Argument)
  <2>1. "NL" \in Token
    BY DEF Token
  <2>2. Multiboot!Text(Multiboot!LineFeed) \in Argument
    BY <1>1, <2>1 DEF Multiboot!LineFeed
  <2>3. <<Multiboot!Text(Multiboot!LineFeed)>> \in Seq(Argument)
    BY <2>2
  <2> QED
    BY <2>3, Joined DEF Multiboot!Line
<1> QED
  BY <1>1, <1>2 DEF Argument

(* An address that does not wrap.                                          *)
LEMMA NoWrap ==
  ASSUME NEW W \in Nat, NEW a \in 0 .. W - 1
  PROVE  a % W = a
  OBVIOUS

(* Where the n-th region behind the first begins, or the map ends.         *)
Begin(n) == Append(mbi.regions, mbi.mmap_addr + mbi.mmap_length)[n + 1]

LEMMA MapWalk ==
  ASSUME Multiboot!WellMade(mbi)
  PROVE  /\ Len(mbi.regions) \in Nat /\ Begin(0) = mbi.mmap_addr
         /\ \A n \in 0 .. Len(mbi.regions) :
              Begin(n) < Multiboot!MapEnd <=> n < Len(mbi.regions)
         /\ \A n \in 1 .. Len(mbi.regions) :
              /\ mbi.regions[n] = Begin(n - 1)
              /\ Multiboot!Region(mbi.regions[n])
                   \in [size : Multiboot!Long, base_addr : Multiboot!Long \X Multiboot!Long]
              /\ Begin(n) = Multiboot!NextEntry(Begin(n - 1))
<1> DEFINE R == mbi.regions  end == mbi.mmap_addr + mbi.mmap_length  b == Append(R, end)
<1>1. PICK L \in Nat : L = Len(R)
  BY LenProperties DEF Multiboot!WellMade
<1>2. /\ mbi.mmap_addr \in Nat /\ mbi.mmap_length \in Nat /\ DOMAIN mbi.memory \subseteq Nat
      /\ R \in Seq(DOMAIN mbi.memory) /\ b[1] = mbi.mmap_addr
      /\ \A a \in DOMAIN mbi.memory :
           mbi.memory[a]
             \in [size : Multiboot!Long, base_addr : Multiboot!Long \X Multiboot!Long]
      /\ \A n \in DOMAIN R :
           b[n] < end /\ b[n + 1] = b[n] + mbi.memory[b[n]].size + 4
      /\ end \in 0 .. WordSize - 1
  <2>1. mbi.mmap_addr \in Nat /\ mbi.mmap_length \in Nat
    BY DEF Multiboot!WellMade, Multiboot!Long
  <2>2. end \in 0 .. WordSize - 1
    BY DEF Multiboot!WellMade, Multiboot!Long
  <2> QED
    BY <2>1, <2>2, Zenon DEF Multiboot!WellMade
<1>3. \A n \in 1 .. L : b[n] = R[n] /\ R[n] \in DOMAIN mbi.memory
  BY <1>1, <1>2, ElementOfSeq, AppendProperties
<1>4. b[L + 1] = end
  BY <1>1, <1>2, AppendProperties
<1>5. DOMAIN R = 1 .. L
  BY <1>1, <1>2, LenProperties
<1> HIDE DEF b, R
<1>6. \A n \in 0 .. L : Begin(n) = b[n + 1]
  BY DEF Begin, b, R
<1>6a. WordSize \in Nat /\ Multiboot!MapEnd = end
  <2>1. WordSize \in Nat
    BY MadeHolds DEF Made
  <2> QED
    BY <1>2, <2>1, NoWrap DEF Multiboot!MapEnd
<1>7. ASSUME NEW n \in 0 .. L PROVE Begin(n) < end <=> n < L
  <2>1. CASE n = L
    BY <1>2, <1>4, <1>6, <2>1
  <2>2. CASE n < L
    <3>1. n + 1 \in DOMAIN R
      BY <1>5, <2>2
    <3>2. b[n + 1] < end
      BY <1>2, <3>1
    <3> QED
      BY <1>6, <2>2, <3>2
  <2> QED
    BY <2>1, <2>2
<1>8. ASSUME NEW n \in 1 .. L
      PROVE  /\ R[n] = Begin(n - 1)
             /\ Multiboot!Region(R[n])
                  \in [size : Multiboot!Long, base_addr : Multiboot!Long \X Multiboot!Long]
             /\ Begin(n) = Multiboot!NextEntry(Begin(n - 1))
  <2>1. n \in 0 .. L /\ n - 1 \in 0 .. L /\ (n - 1) + 1 = n /\ n \in DOMAIN R
    BY <1>5
  <2>2. Begin(n) = b[n + 1] /\ Begin(n - 1) = b[n] /\ b[n] = R[n] /\ R[n] \in DOMAIN mbi.memory
    BY <1>3, <1>6, <2>1
  <2>3. Multiboot!Region(R[n]) = mbi.memory[R[n]]
    BY <2>2 DEF Multiboot!Region
  <2>4. Begin(n) = Begin(n - 1) + Multiboot!Region(Begin(n - 1)).size + 4
    BY <1>2, <2>1, <2>2, <2>3
  <2>5. Begin(n) \in 0 .. WordSize - 1
    <3>1. CASE n = L
      BY <1>2, <1>4, <2>2, <3>1
    <3>2. CASE n < L
      <4>1. n + 1 \in DOMAIN R /\ n + 1 \in 1 .. L
        BY <1>5, <3>2
      <4>2. b[n + 1] < end /\ b[n + 1] \in Nat
        BY <1>2, <1>3, <4>1
      <4> QED
        BY <1>2, <1>6a, <2>2, <4>2
    <3> QED
      BY <3>1, <3>2
  <2>6. Begin(n) % WordSize = Begin(n)
    BY <1>6a, <2>5, NoWrap
  <2>7. Begin(n) = Multiboot!NextEntry(Begin(n - 1))
    BY <2>4, <2>6 DEF Multiboot!NextEntry
  <2> QED
    BY <1>2, <2>1, <2>2, <2>3, <2>7
<1>9. Begin(0) = mbi.mmap_addr
  BY <1>1, <1>2, <1>6
<1> QED
  BY <1>1, <1>7, <1>8, <1>9, <1>6a DEF R

Stage ==
  {"magic", "numbers", "mods", "module", "symbols", "mmap", "region", "return", "halted"}
AllOfMap == mbi.compliant /\ 6 \in mbi.flags /\ ~({4, 5} \subseteq mbi.flags)

(* printf has been given numbers and texts; cmain stands between a line    *)
(* and the next.                                                           *)
GivenInv == mbi \in Infos /\ at \in Stage /\ printed \in Seq(Argument)
ModulesInv ==
  /\ at = "module" => i_ \in 0 .. Len(mbi.mods) /\ EndsIn(printed, ModulePart(i_))
  /\ at \in {"symbols", "mmap", "region", "return", "halted"} /\ mbi.compliant /\ 3 \in mbi.flags
       => Holds(printed, ModulePart(Len(mbi.mods)))
RegionsInv ==
  /\ at = "region" => \E n \in 0 .. Len(mbi.regions) :
                        mmap = Begin(n) /\ EndsIn(printed, RegionPart(n))
  /\ at = "return" /\ AllOfMap => EndsIn(printed, RegionPart(Len(mbi.regions)))
  /\ at = "halted" /\ AllOfMap =>
       EndsIn(printed, RegionPart(Len(mbi.regions)) \o <<Multiboot!Text("Halted.")>>)
ReportInv == GivenInv /\ ModulesInv /\ RegionsInv

LEMMA SameParts ==
  ASSUME mbi' = mbi
  PROVE  /\ \A n \in Nat : ModulePart(n)' = ModulePart(n) /\ RegionPart(n)' = RegionPart(n)
         /\ \A n \in Nat : Begin(n)' = Begin(n)
         /\ AllOfMap' = AllOfMap
<1>1. \A n \in Nat : ModulePart(n)' = ModulePart(n)
  BY DEF ModulePart, Multiboot!ModuleLine
<1>2. \A n \in Nat : RegionPart(n)' = RegionPart(n)
  BY DEF RegionPart, Multiboot!RegionLine, Multiboot!Region
<1> QED
  BY <1>1, <1>2 DEF Begin, AllOfMap

LEMMA ReportInit == Made /\ Multiboot!MultibootInit => ReportInv
  BY EmptySeq DEF Multiboot!MultibootInit, ReportInv, GivenInv, ModulesInv, RegionsInv, Stage

LEMMA ModuleMore ==
  ASSUME Multiboot!WellMade(mbi), NEW n \in Nat, n < Len(mbi.mods)
  PROVE  /\ ModulePart(n) \in Seq(Argument)
         /\ Multiboot!Line(Multiboot!ModuleLine(mbi.mods[n + 1])) \in Seq(Argument)
         /\ ModulePart(n + 1)
              = ModulePart(n) \o Multiboot!Line(Multiboot!ModuleLine(mbi.mods[n + 1]))
<1> DEFINE f == [k \in 1 .. n + 1 |-> Multiboot!Line(Multiboot!ModuleLine(mbi.mods[k]))]
<1>1. ASSUME NEW k \in 1 .. n + 1
      PROVE  Multiboot!Line(Multiboot!ModuleLine(mbi.mods[k])) \in Seq(Argument)
  <2>1. k \in 1 .. Len(mbi.mods) /\ mbi.mods \in Seq(Multiboot!Long)
    BY LenProperties DEF Multiboot!WellMade
  <2>2. mbi.mods[k] \in Multiboot!Long
    BY <2>1, ElementOfSeq
  <2>3. <<"x", mbi.mods[k]>> \in Argument /\ Multiboot!Text("string") \in Argument
    BY <2>2, Given DEF Token
  <2>4. Multiboot!ModuleLine(mbi.mods[k]) \in Seq(Argument)
    BY <2>3 DEF Multiboot!ModuleLine
  <2> QED
    BY <2>4, Given
<1>2. \A k \in 1 .. n + 1 : f[k] \in Seq(Argument)
  BY <1>1
<1>3. /\ [k \in 1 .. n |-> f[k]]
           = [k \in 1 .. n |-> Multiboot!Line(Multiboot!ModuleLine(mbi.mods[k]))]
      /\ [k \in 1 .. n + 1 |-> f[k]]
           = [k \in 1 .. n + 1 |-> Multiboot!Line(Multiboot!ModuleLine(mbi.mods[k]))]
      /\ f[n + 1] = Multiboot!Line(Multiboot!ModuleLine(mbi.mods[n + 1]))
  OBVIOUS
<1> HIDE DEF f
<1>4. /\ FlattenSeq([k \in 1 .. n |-> f[k]]) \in Seq(Argument)
      /\ FlattenSeq([k \in 1 .. n + 1 |-> f[k]])
           = FlattenSeq([k \in 1 .. n |-> f[k]]) \o f[n + 1]
  BY <1>2, OneLineMore
<1>5. n + 1 \in 1 .. n + 1
  OBVIOUS
<1> QED
  BY <1>1, <1>3, <1>4, <1>5 DEF ModulePart

LEMMA RegionMore ==
  ASSUME Multiboot!WellMade(mbi), NEW n \in Nat, n < Len(mbi.regions)
  PROVE  /\ RegionPart(n) \in Seq(Argument)
         /\ Multiboot!Line(Multiboot!RegionLine(Begin(n))) \in Seq(Argument)
         /\ RegionPart(n + 1)
              = RegionPart(n) \o Multiboot!Line(Multiboot!RegionLine(Begin(n)))
<1> DEFINE f == [k \in 1 .. n + 1 |-> Multiboot!Line(Multiboot!RegionLine(mbi.regions[k]))]
<1>1. ASSUME NEW k \in 1 .. n + 1
      PROVE  Multiboot!Line(Multiboot!RegionLine(mbi.regions[k])) \in Seq(Argument)
  <2>1. k \in 1 .. Len(mbi.regions)
    BY MapWalk
  <2>2. PICK r \in [size : Multiboot!Long, base_addr : Multiboot!Long \X Multiboot!Long] :
          r = Multiboot!Region(mbi.regions[k])
    BY <2>1, MapWalk
  <2>3. /\ r.size \in Multiboot!Long /\ r.base_addr[1] \in Multiboot!Long
        /\ r.base_addr[2] \in Multiboot!Long
    BY <2>2
  <2>4. /\ <<"x", r.size>> \in Argument /\ <<"x", r.base_addr[1]>> \in Argument
        /\ <<"x", r.base_addr[2]>> \in Argument
    BY <2>3, Given
  <2>5. Multiboot!RegionLine(mbi.regions[k]) \in Seq(Argument)
    BY <2>2, <2>4 DEF Multiboot!RegionLine
  <2> QED
    BY <2>5, Given
<1>2. \A k \in 1 .. n + 1 : f[k] \in Seq(Argument)
  BY <1>1
<1>3. /\ [k \in 1 .. n |-> f[k]]
           = [k \in 1 .. n |-> Multiboot!Line(Multiboot!RegionLine(mbi.regions[k]))]
      /\ [k \in 1 .. n + 1 |-> f[k]]
           = [k \in 1 .. n + 1 |-> Multiboot!Line(Multiboot!RegionLine(mbi.regions[k]))]
      /\ f[n + 1] = Multiboot!Line(Multiboot!RegionLine(mbi.regions[n + 1]))
  OBVIOUS
<1>4. mbi.regions[n + 1] = Begin(n)
  <2>1. n + 1 \in 1 .. Len(mbi.regions) /\ (n + 1) - 1 = n
    BY MapWalk
  <2> QED
    BY <2>1, MapWalk
<1> HIDE DEF f
<1>5. /\ FlattenSeq([k \in 1 .. n |-> f[k]]) \in Seq(Argument)
      /\ FlattenSeq([k \in 1 .. n + 1 |-> f[k]])
           = FlattenSeq([k \in 1 .. n |-> f[k]]) \o f[n + 1]
  BY <1>2, OneLineMore
<1>6. n + 1 \in 1 .. n + 1
  OBVIOUS
<1> QED
  BY <1>1, <1>3, <1>4, <1>5, <1>6 DEF RegionPart

LEMMA PartTypes ==
  ASSUME Multiboot!WellMade(mbi)
  PROVE  /\ Len(mbi.mods) \in Nat /\ Len(mbi.regions) \in Nat
         /\ ModulePart(0) = <<>> /\ RegionPart(0) = <<>>
         /\ \A n \in 0 .. Len(mbi.mods) : ModulePart(n) \in Seq(Argument)
         /\ \A n \in 0 .. Len(mbi.regions) : RegionPart(n) \in Seq(Argument)
<1>1. Len(mbi.mods) \in Nat /\ Len(mbi.regions) \in Nat
  BY LenProperties DEF Multiboot!WellMade
<1>2. ModulePart(0) = <<>> /\ RegionPart(0) = <<>>
  <2>1. \A s : Len(s) = 0 => FlattenSeq(s) = s
    BY DEF FlattenSeq
  <2>2. /\ [k \in 1 .. 0 |-> Multiboot!Line(Multiboot!ModuleLine(mbi.mods[k]))] = <<>>
        /\ [k \in 1 .. 0 |-> Multiboot!Line(Multiboot!RegionLine(mbi.regions[k]))] = <<>>
        /\ Len(<<>>) = 0
    OBVIOUS
  <2> QED
    BY <2>1, <2>2 DEF ModulePart, RegionPart
<1>3. <<>> \in Seq(Argument)
  BY EmptySeq
<1>4. ASSUME NEW n \in 0 .. Len(mbi.mods) PROVE ModulePart(n) \in Seq(Argument)
  <2>1. CASE n = 0
    BY <1>2, <1>3, <2>1
  <2>2. CASE n # 0
    <3>1. n - 1 \in Nat /\ n - 1 < Len(mbi.mods) /\ (n - 1) + 1 = n
      BY <1>1, <2>2
    <3> QED
      BY <3>1, ModuleMore, Joined
  <2> QED
    BY <2>1, <2>2
<1>5. ASSUME NEW n \in 0 .. Len(mbi.regions) PROVE RegionPart(n) \in Seq(Argument)
  <2>1. CASE n = 0
    BY <1>2, <1>3, <2>1
  <2>2. CASE n # 0
    <3>1. n - 1 \in Nat /\ n - 1 < Len(mbi.regions) /\ (n - 1) + 1 = n
      BY <1>1, <2>2
    <3> QED
      BY <3>1, RegionMore, Joined
  <2> QED
    BY <2>1, <2>2
<1> QED
  BY <1>1, <1>2, <1>4, <1>5

(* cmain prints something, or nothing, and goes on to what is not a loop.  *)
LEMMA LineKeeps ==
  ASSUME ReportInv, Multiboot!WellMade(mbi), mbi' = mbi, NEW g \in Seq(Argument),
         printed' = printed \o g, at' \in Stage, at' \notin {"module", "region"},
         at \in {"symbols", "mmap", "region", "return"} \/ ~mbi.compliant
           \/ at' \in {"numbers", "mods"} \/ (at' = "symbols" /\ ~(3 \in mbi.flags)),
         at' = "return" => ~AllOfMap, at' # "halted"
  PROVE  ReportInv'
<1>1. printed \in Seq(Argument) /\ mbi \in Infos
  BY DEF ReportInv, GivenInv
<1>2. GivenInv'
  BY <1>1, PrintedMore DEF GivenInv
<1>3. PICK L \in Nat : L = Len(mbi.mods) /\ ModulePart(L) \in Seq(Argument)
  BY PartTypes
<1>4. ModulePart(Len(mbi.mods))' = ModulePart(Len(mbi.mods))
  BY <1>3, SameParts
<1>5. ASSUME at' \in {"symbols", "mmap", "region", "return", "halted"}, mbi.compliant,
             3 \in mbi.flags
      PROVE  Holds(printed', ModulePart(L))
  <2>1. Holds(printed, ModulePart(L))
    BY <1>3, <1>5 DEF ReportInv, ModulesInv
  <2> QED
    BY <1>1, <1>3, <2>1, PrintedMore
<1>6. ModulesInv'
  BY <1>3, <1>4, <1>5 DEF ModulesInv
<1>7. RegionsInv'
  BY SameParts DEF RegionsInv
<1> QED
  BY <1>2, <1>6, <1>7 DEF ReportInv

LEMMA Unprinted ==
  ASSUME printed \in Seq(Argument), printed' = printed
  PROVE  printed' = printed \o <<>> /\ <<>> \in Seq(Argument)
BY NothingJoined

LEMMA MagicChecked ==
  ASSUME ReportInv, Multiboot!WellMade(mbi), mbi' = mbi, Multiboot!CheckMagic
  PROVE  ReportInv'
<1>1. mbi.number \in Multiboot!Long
  BY DEF Multiboot!WellMade
<1>2. CASE mbi.compliant
  <2> DEFINE g == Multiboot!Line(<< <<"x", mbi.number>> >>)
  <2>1. printed' = printed \o g /\ at' = "numbers"
    BY <1>2 DEF Multiboot!CheckMagic, Multiboot!printf
  <2>2. g \in Seq(Argument)
    <3>1. <<"x", mbi.number>> \in Argument
      BY <1>1, Given
    <3>2. << <<"x", mbi.number>> >> \in Seq(Argument)
      BY <3>1
    <3> QED
      BY <3>2, Given
  <2> HIDE DEF g
  <2> QED
    BY <2>1, <2>2, LineKeeps DEF Stage
<1>3. CASE ~mbi.compliant
  <2> DEFINE g == Multiboot!Line(<<Multiboot!Text("invalid")>>)
  <2>1. printed' = printed \o g /\ at' = "return"
    BY <1>3 DEF Multiboot!CheckMagic, Multiboot!printf
  <2>2. g \in Seq(Argument)
    <3>1. <<Multiboot!Text("invalid")>> \in Seq(Argument)
      BY Given DEF Token
    <3> QED
      BY <3>1, Given
  <2>3. ~AllOfMap
    BY <1>3 DEF AllOfMap
  <2> HIDE DEF g
  <2> QED
    BY <1>3, <2>1, <2>2, <2>3, LineKeeps DEF Stage
<1> QED
  BY <1>2, <1>3

LEMMA NumbersPrinted ==
  ASSUME ReportInv, Multiboot!WellMade(mbi), mbi' = mbi, Multiboot!PrintNumbers
  PROVE  ReportInv'
<1>1. mbi.number \in Multiboot!Long
  BY DEF Multiboot!WellMade
<1> DEFINE a == IF 0 \in mbi.flags
                  THEN Multiboot!Line(<< <<"u", mbi.number>>, <<"u", mbi.number>> >>)
                  ELSE <<>>
           b == IF 1 \in mbi.flags THEN Multiboot!Line(<< <<"x", mbi.number>> >>) ELSE <<>>
           c == IF 2 \in mbi.flags THEN Multiboot!Line(<<Multiboot!Text("cmdline")>>)
                                   ELSE <<>>
           g == a \o b \o c
<1>2. printed' = printed \o g /\ at' = "mods"
  BY DEF Multiboot!PrintNumbers, Multiboot!printf
<1>3. g \in Seq(Argument)
  <2>0. /\ <<"u", mbi.number>> \in Argument /\ <<"x", mbi.number>> \in Argument
        /\ Multiboot!Text("cmdline") \in Argument
    BY <1>1, Given DEF Token
  <2>1. /\ << <<"u", mbi.number>>, <<"u", mbi.number>> >> \in Seq(Argument)
        /\ << <<"x", mbi.number>> >> \in Seq(Argument)
        /\ <<Multiboot!Text("cmdline")>> \in Seq(Argument)
    BY <2>0
  <2>2. a \in Seq(Argument) /\ b \in Seq(Argument) /\ c \in Seq(Argument)
    BY <2>1, Given, EmptySeq
  <2> HIDE DEF a, b, c
  <2> QED
    BY <2>2, Joined
<1> HIDE DEF g
<1> QED
  BY <1>2, <1>3, LineKeeps DEF Stage

LEMMA SymbolsPrinted ==
  ASSUME ReportInv, Multiboot!WellMade(mbi), mbi' = mbi, Multiboot!PrintSymbols
  PROVE  ReportInv'
<1>1. /\ mbi.number \in Multiboot!Long /\ printed \in Seq(Argument) /\ at = "symbols"
  BY DEF Multiboot!WellMade, ReportInv, GivenInv, Multiboot!PrintSymbols
<1>2. /\ <<Multiboot!Text("both")>> \in Seq(Argument)
      /\ << <<"0x", mbi.number>>, <<"x", mbi.number>> >> \in Seq(Argument)
      /\ << <<"u", mbi.number>>, <<"x", mbi.number>> >> \in Seq(Argument)
  BY <1>1, Given DEF Token
<1>3. \E g \in Seq(Argument) :
        /\ printed' = printed \o g
        /\ at' \in {"return", "mmap"} /\ (at' = "return" => {4, 5} \subseteq mbi.flags)
  <2>1. CASE {4, 5} \subseteq mbi.flags
    <3>1. printed' = printed \o Multiboot!Line(<<Multiboot!Text("both")>>) /\ at' = "return"
      BY <2>1 DEF Multiboot!PrintSymbols, Multiboot!printf
    <3> QED
      BY <1>2, <2>1, <3>1, Given
  <2>2. CASE ~({4, 5} \subseteq mbi.flags) /\ 4 \in mbi.flags
    <3>1. /\ printed' = printed \o Multiboot!Line(<< <<"0x", mbi.number>>, <<"x", mbi.number>> >>)
          /\ at' = "mmap"
      BY <2>2 DEF Multiboot!PrintSymbols, Multiboot!printf
    <3> QED
      BY <1>2, <3>1, Given
  <2>3. CASE 4 \notin mbi.flags /\ 5 \in mbi.flags
    <3>1. /\ printed' = printed \o Multiboot!Line(<< <<"u", mbi.number>>, <<"x", mbi.number>> >>)
          /\ at' = "mmap"
      BY <2>3 DEF Multiboot!PrintSymbols, Multiboot!printf
    <3> QED
      BY <1>2, <3>1, Given
  <2>4. CASE 4 \notin mbi.flags /\ 5 \notin mbi.flags
    <3>1. printed' = printed /\ at' = "mmap"
      BY <2>4 DEF Multiboot!PrintSymbols, Multiboot!Pass
    <3> QED
      BY <1>1, <3>1, Unprinted
  <2> QED
    BY <2>1, <2>2, <2>3, <2>4
<1>4. PICK g \in Seq(Argument) :
        /\ printed' = printed \o g
        /\ at' \in {"return", "mmap"} /\ (at' = "return" => {4, 5} \subseteq mbi.flags)
  BY <1>3
<1>5. at' = "return" => ~AllOfMap
  BY <1>4 DEF AllOfMap
<1> QED
  BY <1>1, <1>4, <1>5, LineKeeps DEF Stage

LEMMA ModulesCounted ==
  ASSUME ReportInv, Multiboot!WellMade(mbi), mbi' = mbi, Multiboot!CountModules,
         WordSize \in Nat
  PROVE  ReportInv'
<1>1. printed \in Seq(Argument) /\ mbi \in Infos
  BY DEF ReportInv, GivenInv
<1>2. CASE 3 \in mbi.flags
  <2> DEFINE g == Multiboot!Line(<< <<"d", Len(mbi.mods)>>, <<"x", mbi.number>> >>)
  <2>1. printed' = printed \o g /\ at' = "module" /\ i_' = 0
    BY <1>2 DEF Multiboot!CountModules, Multiboot!printf
  <2>2. Len(mbi.mods) \in Multiboot!Long /\ 2 * Len(mbi.mods) < WordSize
    <3>1. /\ Len(mbi.mods) \in Nat /\ 2 * Len(mbi.mods) < WordSize
          /\ mbi.number \in 0 .. WordSize - 1
      BY PartTypes DEF Multiboot!WellMade, Multiboot!Long
    <3> QED
      BY <3>1 DEF Multiboot!Long
  <2>3. <<"d", Len(mbi.mods)>> \in Argument /\ <<"x", mbi.number>> \in Argument
    BY <2>2, Given DEF Multiboot!WellMade
  <2>4. << <<"d", Len(mbi.mods)>>, <<"x", mbi.number>> >> \in Seq(Argument)
    BY <2>3
  <2>5. g \in Seq(Argument)
    BY <2>4, Given
  <2> HIDE DEF g
  <2>6. printed' \in Seq(Argument) /\ EndsIn(printed', <<>>)
    BY <1>1, <2>1, <2>5, PrintedMore
  <2>7. 0 \in 0 .. Len(mbi.mods) /\ ModulePart(0) = <<>>
    BY PartTypes
  <2>8. GivenInv'
    BY <1>1, <2>1, <2>6 DEF GivenInv, Stage
  <2>9. ModulesInv'
    <3>1. ModulePart(0)' = ModulePart(0)
      BY SameParts
    <3>2. ModulePart(i_)' = <<>>
      BY <2>1, <2>7, <3>1 DEF ModulePart
    <3> QED
      BY <2>1, <2>6, <2>7, <3>2 DEF ModulesInv
  <2>10. RegionsInv'
    BY <2>1 DEF RegionsInv
  <2> QED
    BY <2>8, <2>9, <2>10 DEF ReportInv
<1>3. CASE ~(3 \in mbi.flags)
  <2>1. printed' = printed /\ at' = "symbols"
    BY <1>3 DEF Multiboot!CountModules, Multiboot!Pass
  <2> QED
    BY <1>1, <1>3, <2>1, Unprinted, LineKeeps DEF Stage
<1> QED
  BY <1>2, <1>3

LEMMA ModulePrinted ==
  ASSUME ReportInv, Multiboot!WellMade(mbi), mbi' = mbi, Multiboot!PrintModule
  PROVE  ReportInv'
<1>1. /\ printed \in Seq(Argument) /\ mbi \in Infos
      /\ at = "module" /\ i_ \in 0 .. Len(mbi.mods) /\ EndsIn(printed, ModulePart(i_))
  BY DEF ReportInv, GivenInv, ModulesInv, Multiboot!PrintModule
<1>2. PICK L \in Nat : L = Len(mbi.mods)
  BY PartTypes
<1>3. CASE i_ < L
  <2> DEFINE g == Multiboot!Line(Multiboot!ModuleLine(mbi.mods[i_ + 1]))
  <2>1. printed' = printed \o g /\ at' = "module" /\ i_' = i_ + 1
    BY <1>2, <1>3 DEF Multiboot!PrintModule, Multiboot!printf, Multiboot!ModuleLine
  <2>2. /\ ModulePart(i_) \in Seq(Argument) /\ g \in Seq(Argument)
        /\ ModulePart(i_ + 1) = ModulePart(i_) \o g
    <3>1. i_ \in Nat /\ i_ < Len(mbi.mods)
      BY <1>1, <1>2, <1>3
    <3> QED
      BY <3>1, ModuleMore
  <2> HIDE DEF g
  <2>3. printed' \in Seq(Argument) /\ EndsIn(printed', ModulePart(i_ + 1))
    BY <1>1, <2>1, <2>2, PrintedMore
  <2>4. ModulePart(i_ + 1) = ModulePart(i_)'
    BY <2>1 DEF ModulePart, Multiboot!ModuleLine
  <2>5. ModulesInv'
    BY <1>1, <1>2, <1>3, <2>1, <2>3, <2>4 DEF ModulesInv
  <2> QED
    BY <1>1, <2>1, <2>3, <2>5 DEF ReportInv, GivenInv, RegionsInv, Stage
<1>4. CASE ~(i_ < L)
  <2>1. printed' = printed /\ at' = "symbols" /\ i_ = L
    BY <1>1, <1>2, <1>4 DEF Multiboot!PrintModule, Multiboot!Pass
  <2>2. ModulePart(L) \in Seq(Argument)
    BY <1>2, PartTypes
  <2>3. Holds(printed', ModulePart(L))
    BY <1>1, <2>1, <2>2, PrintedMore
  <2>4. ModulePart(L)' = ModulePart(L)
    BY SameParts
  <2>5. ModulesInv'
    BY <1>2, <2>1, <2>3, <2>4 DEF ModulesInv
  <2> QED
    BY <1>1, <2>1, <2>5 DEF ReportInv, GivenInv, RegionsInv, Stage
<1> QED
  BY <1>3, <1>4

(* What has been said of the modules stays said.                           *)
LEMMA ModulesStaySaid ==
  ASSUME ReportInv, Multiboot!WellMade(mbi), mbi' = mbi, NEW g \in Seq(Argument),
         printed' = printed \o g, at \in {"symbols", "mmap", "region", "return", "halted"},
         at' # "module", at' \in Stage
  PROVE  GivenInv' /\ ModulesInv'
<1>1. printed \in Seq(Argument) /\ mbi \in Infos
  BY DEF ReportInv, GivenInv
<1>2. PICK L \in Nat : L = Len(mbi.mods) /\ ModulePart(L) \in Seq(Argument)
  BY PartTypes
<1>3. ModulePart(L)' = ModulePart(L)
  BY SameParts
<1>4. mbi.compliant /\ 3 \in mbi.flags => Holds(printed', ModulePart(L))
  BY <1>1, <1>2, PrintedMore DEF ReportInv, ModulesInv
<1>5. ModulesInv'
  BY <1>2, <1>3, <1>4 DEF ModulesInv
<1>6. GivenInv'
  BY <1>1, PrintedMore DEF GivenInv
<1> QED
  BY <1>5, <1>6

LEMMA MapStarted ==
  ASSUME ReportInv, Multiboot!WellMade(mbi), mbi' = mbi, Multiboot!StartMap
  PROVE  ReportInv'
<1>1. printed \in Seq(Argument) /\ mbi \in Infos /\ at = "mmap"
  BY DEF ReportInv, GivenInv, Multiboot!StartMap
<1>2. CASE 6 \in mbi.flags
  <2> DEFINE g == Multiboot!Line(<< <<"x", mbi.mmap_addr>>, <<"x", mbi.mmap_length>> >>)
  <2>1. printed' = printed \o g /\ at' = "region" /\ mmap' = mbi.mmap_addr
    BY <1>2 DEF Multiboot!StartMap, Multiboot!printf
  <2>2. <<"x", mbi.mmap_addr>> \in Argument /\ <<"x", mbi.mmap_length>> \in Argument
    BY Given DEF Multiboot!WellMade
  <2>3. << <<"x", mbi.mmap_addr>>, <<"x", mbi.mmap_length>> >> \in Seq(Argument)
    BY <2>2
  <2>4. g \in Seq(Argument)
    BY <2>3, Given
  <2> HIDE DEF g
  <2>5. GivenInv' /\ ModulesInv'
    BY <1>1, <2>1, <2>4, ModulesStaySaid DEF Stage
  <2>6. printed' \in Seq(Argument) /\ EndsIn(printed', <<>>)
    BY <1>1, <2>1, <2>4, PrintedMore
  <2>7. /\ 0 \in 0 .. Len(mbi.regions) /\ RegionPart(0) = <<>> /\ Begin(0) = mbi.mmap_addr
    BY PartTypes, MapWalk
  <2>8. RegionPart(0)' = RegionPart(0) /\ Begin(0)' = Begin(0)
    BY SameParts
  <2>9. mmap' = Begin(0)' /\ EndsIn(printed', RegionPart(0)')
    BY <2>1, <2>6, <2>7, <2>8
  <2>10. RegionsInv'
    BY <2>1, <2>7, <2>9 DEF RegionsInv
  <2> QED
    BY <2>5, <2>10 DEF ReportInv
<1>3. CASE ~(6 \in mbi.flags)
  <2>1. printed' = printed /\ at' = "return" /\ ~AllOfMap
    BY <1>3 DEF Multiboot!StartMap, Multiboot!Pass, AllOfMap
  <2> QED
    BY <1>1, <1>3, <2>1, Unprinted, LineKeeps DEF Stage
<1> QED
  BY <1>2, <1>3

LEMMA RegionPrinted ==
  ASSUME ReportInv, Multiboot!WellMade(mbi), mbi' = mbi, Multiboot!PrintRegion
  PROVE  ReportInv'
<1>1. printed \in Seq(Argument) /\ mbi \in Infos /\ at = "region"
  BY DEF ReportInv, GivenInv, Multiboot!PrintRegion
<1>2. PICK L \in Nat : L = Len(mbi.regions)
  BY PartTypes
<1>3. PICK n \in 0 .. L : mmap = Begin(n) /\ EndsIn(printed, RegionPart(n))
  BY <1>1, <1>2 DEF ReportInv, RegionsInv
<1>4. mmap < Multiboot!MapEnd <=> n < L
  BY <1>2, <1>3, MapWalk
<1>5. CASE n < L
  <2> DEFINE g == Multiboot!Line(Multiboot!RegionLine(Begin(n)))
  <2>1. printed' = printed \o g /\ at' = "region" /\ mmap' = Multiboot!NextEntry(Begin(n))
    BY <1>3, <1>4, <1>5 DEF Multiboot!PrintRegion, Multiboot!printf, Multiboot!RegionLine
  <2>2. n \in Nat /\ n < Len(mbi.regions) /\ n + 1 \in 1 .. L /\ n + 1 \in 0 .. L
        /\ (n + 1) - 1 = n
    BY <1>2, <1>5
  <2>3. /\ RegionPart(n) \in Seq(Argument) /\ g \in Seq(Argument)
        /\ RegionPart(n + 1) = RegionPart(n) \o g
    BY <2>2, RegionMore
  <2>4. Begin(n + 1) = Multiboot!NextEntry(Begin(n))
    BY <1>2, <2>2, MapWalk
  <2> HIDE DEF g
  <2>5. GivenInv' /\ ModulesInv'
    BY <1>1, <2>1, <2>3, ModulesStaySaid DEF Stage
  <2>6. EndsIn(printed', RegionPart(n + 1))
    BY <1>1, <1>3, <2>1, <2>3, PrintedMore
  <2>7. RegionPart(n + 1)' = RegionPart(n + 1) /\ Begin(n + 1)' = Begin(n + 1)
    BY <2>2, SameParts
  <2>8. mmap' = Begin(n + 1)' /\ EndsIn(printed', RegionPart(n + 1)')
    BY <2>1, <2>4, <2>6, <2>7
  <2>9. RegionsInv'
    BY <1>2, <2>1, <2>2, <2>8 DEF RegionsInv
  <2> QED
    BY <2>5, <2>9 DEF ReportInv
<1>6. CASE ~(n < L)
  <2>1. printed' = printed /\ at' = "return" /\ n = L
    BY <1>3, <1>4, <1>6 DEF Multiboot!PrintRegion, Multiboot!Pass
  <2>2. GivenInv' /\ ModulesInv'
    BY <1>1, <2>1, Unprinted, ModulesStaySaid DEF Stage
  <2>3. RegionPart(L)' = RegionPart(L)
    BY SameParts
  <2>4. EndsIn(printed', RegionPart(Len(mbi.regions))')
    BY <1>2, <1>3, <2>1, <2>3
  <2>5. RegionsInv'
    BY <2>1, <2>4 DEF RegionsInv
  <2> QED
    BY <2>2, <2>5 DEF ReportInv
<1> QED
  BY <1>5, <1>6

LEMMA Halts ==
  ASSUME ReportInv, Multiboot!WellMade(mbi), mbi' = mbi, Multiboot!Halt
  PROVE  ReportInv'
<1> DEFINE g == <<Multiboot!Text("Halted.")>>
<1>1. /\ printed \in Seq(Argument) /\ mbi \in Infos /\ at = "return"
      /\ printed' = printed \o g /\ at' = "halted"
  BY DEF ReportInv, GivenInv, Multiboot!Halt, Multiboot!printf
<1>2. g \in Seq(Argument)
  <2>1. Multiboot!Text("Halted.") \in Argument
    BY Given DEF Token
  <2> QED
    BY <2>1
<1> HIDE DEF g
<1>3. GivenInv' /\ ModulesInv'
  BY <1>1, <1>2, ModulesStaySaid DEF Stage
<1>4. PICK L \in Nat : L = Len(mbi.regions) /\ RegionPart(L) \in Seq(Argument)
  BY PartTypes
<1>5. RegionPart(L)' = RegionPart(L) /\ AllOfMap' = AllOfMap
  BY SameParts
<1>6. AllOfMap => EndsIn(printed', RegionPart(L) \o g)
  BY <1>1, <1>2, <1>4, PrintedMore DEF ReportInv, RegionsInv
<1>7. RegionsInv'
  <2>1. AllOfMap' => EndsIn(printed', RegionPart(Len(mbi.regions))'
                                        \o <<Multiboot!Text("Halted.")>>)
    BY <1>4, <1>5, <1>6 DEF g
  <2>2. <<Multiboot!Text("Halted.")>>' = <<Multiboot!Text("Halted.")>>
    BY DEF Multiboot!Text
  <2> QED
    BY <1>1, <2>1, <2>2 DEF RegionsInv
<1> QED
  BY <1>3, <1>7 DEF ReportInv

LEMMA ReportNext ==
  Made /\ ReportInv /\ [Multiboot!MultibootNext]_(Multiboot!multibootVars) => ReportInv'
<1> SUFFICES ASSUME Made, ReportInv, [Multiboot!MultibootNext]_(Multiboot!multibootVars)
             PROVE  ReportInv'
  OBVIOUS
<1>1. Multiboot!WellMade(mbi) /\ WordSize \in Nat
  BY DEF Made, ReportInv, GivenInv
<1>2. CASE Multiboot!cmain
  <2>1. mbi' = mbi
    BY <1>2 DEF Multiboot!cmain
  <2> QED
    BY <1>1, <1>2, <2>1, MagicChecked, NumbersPrinted, ModulesCounted, ModulePrinted,
       SymbolsPrinted, MapStarted, RegionPrinted, Halts DEF Multiboot!cmain
<1>3. CASE Multiboot!putchar \/ UNCHANGED Multiboot!multibootVars
  <2>1. mbi' = mbi /\ at' = at /\ i_' = i_ /\ mmap' = mmap /\ printed' = printed
    BY <1>3 DEF Multiboot!putchar, Multiboot!multibootVars, Multiboot!cmainVars
  <2>2. /\ Len(mbi.mods) \in Nat /\ Len(mbi.regions) \in Nat
        /\ at = "module" => i_ \in Nat
    BY <1>1, PartTypes DEF ReportInv, ModulesInv
  <2>3. GivenInv'
    BY <2>1 DEF ReportInv, GivenInv
  <2>4. ModulesInv'
    BY <2>1 DEF ReportInv, ModulesInv, ModulePart, Multiboot!ModuleLine
  <2>5. RegionsInv'
    BY <2>1 DEF ReportInv, RegionsInv, RegionPart, Begin, AllOfMap, Multiboot!RegionLine,
                Multiboot!Region, Multiboot!Text
  <2> QED
    BY <2>3, <2>4, <2>5 DEF ReportInv
<1> QED
  BY <1>2, <1>3 DEF Multiboot!MultibootNext

LEMMA Suffix ==
  ASSUME NEW S, NEW h \in Seq(S), NEW w \in Seq(S)
  PROVE  Multiboot!IsSuffix(w, h \o w)
<1> DEFINE m == Len(h)  n == Len(w)  p == h \o w
           a == [k \in 1 .. n |-> w[n - k + 1]]
           b == [k \in 1 .. m + n |-> p[m + n - k + 1]]
<1>1. /\ p \in Seq(S) /\ Len(p) = m + n /\ m \in Nat /\ n \in Nat
      /\ \A j \in 1 .. m + n : p[j] = IF j <= m THEN h[j] ELSE w[j - m]
  BY Joined
<1>2. Multiboot!Reverse(w) = a /\ Multiboot!Reverse(p) = b
  BY <1>1 DEF Multiboot!Reverse
<1>3. (\A j \in 1 .. n : w[j] \in S) /\ (\A j \in 1 .. m + n : p[j] \in S)
  BY <1>1, ElementOfSeq
<1> HIDE DEF m, n, p
<1>4. a \in Seq(S) /\ Len(a) = n /\ b \in Seq(S) /\ Len(b) = m + n
  <2>1. \A k \in 1 .. n : n - k + 1 \in 1 .. n
    BY <1>1
  <2>2. \A k \in 1 .. m + n : m + n - k + 1 \in 1 .. m + n
    BY <1>1
  <2> QED
    BY <1>1, <1>3, <2>1, <2>2
<1>5. ASSUME NEW k \in 1 .. n PROVE a[k] = b[k]
  <2>1. /\ m + n - k + 1 \in 1 .. m + n /\ ~(m + n - k + 1 <= m)
        /\ (m + n - k + 1) - m = n - k + 1 /\ k \in 1 .. m + n
    BY <1>1
  <2>2. p[m + n - k + 1] = w[(m + n - k + 1) - m]
    BY <1>1, <2>1
  <2> QED
    BY <2>1, <2>2
<1> HIDE DEF a, b
<1> DEFINE x == SubSeq(a, 1, n)  y == SubSeq(b, 1, n)
<1>6. x = a
  BY <1>4, SubSeqFull
<1>7. /\ y \in Seq(S) /\ Len(y) = (IF 1 <= n THEN n - 1 + 1 ELSE 0)
      /\ \A j \in 1 .. n - 1 + 1 : y[j] = b[1 + j - 1]
  <2>1. \A j \in 1 .. n : b[j] \in S
    BY <1>1, <1>4, ElementOfSeq
  <2> QED
    BY <1>1, <1>4, <2>1, SubSeqProperties
<1> HIDE DEF x, y
<1>8. Len(y) = n /\ \A j \in 1 .. n : y[j] = a[j]
  BY <1>1, <1>5, <1>7
<1>9. y = a
  BY <1>4, <1>7, <1>8, SeqEqual
<1> QED
  BY <1>1, <1>2, <1>4, <1>6, <1>9 DEF Multiboot!IsSuffix, Multiboot!IsPrefix, x, y, p

LEMMA SaysWhole == Made /\ ReportInv => Multiboot!ReportWhole
<1> SUFFICES ASSUME Made, ReportInv, at = "halted", mbi.compliant
             PROVE  /\ 3 \in mbi.flags
                         => Multiboot!Reported(Multiboot!Lines(mbi.mods, Multiboot!ModuleLine))
                    /\ 6 \in mbi.flags /\ ~({4, 5} \subseteq mbi.flags) =>
                         Multiboot!IsSuffix(
                           Append(Multiboot!Lines(mbi.regions, Multiboot!RegionLine),
                                  Multiboot!Text("Halted.")), printed)
  BY DEF Multiboot!ReportWhole
<1>1. Multiboot!WellMade(mbi) /\ printed \in Seq(Argument)
  BY DEF Made, ReportInv, GivenInv
<1>2. PICK M \in Nat, R \in Nat : M = Len(mbi.mods) /\ R = Len(mbi.regions)
  BY <1>1, PartTypes
<1>3. DOMAIN mbi.mods = 1 .. M /\ DOMAIN mbi.regions = 1 .. R
  BY <1>1, <1>2, LenProperties DEF Multiboot!WellMade
<1>4. ModulePart(M) \in Seq(Argument) /\ RegionPart(R) \in Seq(Argument)
  BY <1>1, <1>2, PartTypes
<1>5. /\ Multiboot!Lines(mbi.mods, Multiboot!ModuleLine) = ModulePart(M)
      /\ Multiboot!Lines(mbi.regions, Multiboot!RegionLine) = RegionPart(R)
  BY <1>3, SameFlatten DEF Multiboot!Lines, ModulePart, RegionPart
<1>6. ASSUME 3 \in mbi.flags PROVE Multiboot!Reported(ModulePart(M))
  <2>1. Holds(printed, ModulePart(M))
    BY <1>2, <1>6 DEF ReportInv, ModulesInv
  <2>2. PICK h, t \in Seq(Argument) : printed = h \o (ModulePart(M) \o t)
    BY <2>1 DEF Holds
  <2>3. PICK w \in Seq(Argument) : w = ModulePart(M) \o t
    BY <1>4, Joined
  <2>4. /\ SubSeq(printed, Len(h) + 1, Len(printed)) = w /\ IsPrefix(ModulePart(M), w)
        /\ Len(h) \in 0 .. Len(printed)
    <3>1. Len(h) \in Nat /\ Len(w) \in Nat /\ Len(h \o w) = Len(h) + Len(w)
      BY Joined
    <3>2. Len(h) \in 0 .. Len(h \o w)
      BY <3>1
    <3>3. printed = h \o w
      BY <2>2, <2>3
    <3>4. SubSeq(h \o w, Len(h) + 1, Len(h \o w)) = w
      BY JoinedCut
    <3>5. IsPrefix(ModulePart(M), w)
      BY <1>4, <2>3, JoinedCut
    <3> QED
      BY <3>2, <3>3, <3>4, <3>5
  <2>5. Multiboot!IsPrefix(ModulePart(M), w)
    BY <2>4 DEF IsPrefix, Multiboot!IsPrefix
  <2> QED
    BY <2>4, <2>5 DEF Multiboot!Reported
<1>7. ASSUME 6 \in mbi.flags, ~({4, 5} \subseteq mbi.flags)
      PROVE  Multiboot!IsSuffix(Append(RegionPart(R), Multiboot!Text("Halted.")), printed)
  <2> DEFINE x == Multiboot!Text("Halted.")
  <2>1. EndsIn(printed, RegionPart(R) \o <<x>>)
    BY <1>2, <1>7 DEF ReportInv, RegionsInv, AllOfMap
  <2>2. x \in Argument
    BY Given DEF Token
  <2> HIDE DEF x
  <2>3. <<x>> \in Seq(Argument) /\ Append(RegionPart(R), x) = RegionPart(R) \o <<x>>
    BY <1>4, <2>2, AppendIsConcat
  <2>4. PICK w \in Seq(Argument) : w = RegionPart(R) \o <<x>>
    BY <1>4, <2>3, Joined
  <2>5. PICK h \in Seq(Argument) : printed = h \o w
    BY <2>1, <2>4 DEF EndsIn
  <2>6. Multiboot!IsSuffix(w, printed)
    BY <2>5, Suffix
  <2> QED
    BY <2>3, <2>4, <2>6 DEF x
<1> QED
  BY <1>5, <1>6, <1>7

(* Whatever well-made information a boot loader passes, and however many   *)
(* modules and regions it has: when the machine halts all of them have     *)
(* been reported, once and in the loader's order (cmain).                  *)
THEOREM AllIsReported == Multiboot!MultibootSpec => []ReportWhole
<1>1. Multiboot!MultibootInit => ReportInv
  BY MadeHolds, ReportInit
<1>2. ReportInv /\ [Multiboot!MultibootNext]_(Multiboot!multibootVars) => ReportInv'
  BY MadeHolds, ReportNext
<1>3. ReportInv => ReportWhole
  BY MadeHolds, SaysWhole DEF ReportWhole
<1> QED
  BY <1>1, <1>2, <1>3, PTL DEF Multiboot!MultibootSpec

-----------------------------------------------------------------------------
(* Numbers, and how MyToyOS1 writes them.                                  *)

(* There is one quotient and one remainder.                                *)
LEMMA DivMod ==
  ASSUME NEW B \in Nat \ {0}, NEW q \in Int, NEW r \in 0 .. B - 1
  PROVE  (q * B + r) \div B = q /\ (q * B + r) % B = r
  OBVIOUS

LEMMA DivModExists ==
  ASSUME NEW B \in Nat \ {0}, NEW a \in Nat
  PROVE  /\ a \div B \in Nat /\ a % B \in 0 .. B - 1
         /\ a = (a \div B) * B + (a % B)
  OBVIOUS

(* The sum of the two halves of a number, and the complement of a number   *)
(* of up to twice a word's values, cut off to a word.                      *)
LEMMA HalvesSum ==
  ASSUME NEW B \in Nat \ {0}, NEW q \in Int, NEW r \in 0 .. B - 1,
         NEW t, t = q * B + r
  PROVE  (t \div B) + (t % B) = q + r
<1>1. t \div B = q /\ t % B = r
  BY DivMod
<1> QED
  BY <1>1

(* The quotient of a number that is not smaller than its divisor.          *)
LEMMA Smaller ==
  ASSUME NEW B \in Nat \ {0, 1}, NEW a \in Nat
  PROVE  /\ a < B => a \div B = 0 /\ a % B = a
         /\ a >= B => a \div B \in 1 .. a - 1
<1>1. PICK q, r : q = a \div B /\ r = a % B
  OBVIOUS
<1>2. q \in Nat /\ r \in 0 .. B - 1 /\ a = q * B + r
  BY <1>1, DivModExists
<1>3. q = 0 => q * B = 0
  BY <1>2
<1>4. q > 0 => q * B >= B /\ q * B > q
  BY <1>2
<1>5. q = 0 => a = r
  BY <1>2, <1>3
<1> QED
  BY <1>1, <1>2, <1>3, <1>4

Glyph == {Multiboot!Digit[k] : k \in 1 .. 16}

LEMMA Glyphs ==
  ASSUME NEW k \in 0 .. 15
  PROVE  /\ Multiboot!Digit[k + 1] \in Glyph
         /\ Multiboot!Digit[k + 1] # "-"
         /\ Multiboot!Digit[k + 1] = "0" => k = 0
         /\ Multiboot!Worth(Multiboot!Digit[k + 1]) = k
<1>1. Multiboot!Digit[k + 1] \in Glyph
  BY DEF Glyph
<1>2. Multiboot!Digit[k + 1] # "-" /\ (Multiboot!Digit[k + 1] = "0" => k = 0)
  BY DEF Multiboot!Digit
<1>3. \A j \in 1 .. 16 : Multiboot!Digit[j] = Multiboot!Digit[k + 1] => j = k + 1
  BY DEF Multiboot!Digit
<1> DEFINE I == {j \in 1 .. Len(Multiboot!Digit) : Multiboot!Digit[j] = Multiboot!Digit[k + 1]}
<1>4. Len(Multiboot!Digit) = 16
  BY DEF Multiboot!Digit
<1>5. I = {k + 1}
  BY <1>3, <1>4
<1>6. Multiboot!Worth(Multiboot!Digit[k + 1])
        = (IF I # {} THEN Multiboot!Min(I) ELSE 0) - 1
  BY DEF Multiboot!Worth, Multiboot!SelectInSeq
<1>7. Multiboot!Min({k + 1}) = k + 1
  BY DEF Multiboot!Min
<1> HIDE DEF I
<1>8. Multiboot!Worth(Multiboot!Digit[k + 1]) = (k + 1) - 1
  BY <1>5, <1>6, <1>7
<1> QED
  BY <1>1, <1>2, <1>8

(* What a text of digits is worth: Horner's rule.                          *)
Values(d, B, v) ==
  /\ v \in [0 .. Len(d) -> Nat] /\ v[0] = 0
  /\ \A k \in 1 .. Len(d) : v[k] = v[k - 1] * B + Multiboot!Worth(d[k])

LEMMA ValuesExist ==
  ASSUME NEW B \in Nat, NEW d \in Seq(Glyph)
  PROVE  \E v : Values(d, B, v) /\ Multiboot!ValueOf(d, B) = v[Len(d)]
<1> DEFINE w == [k \in 1 .. Len(d) |-> Multiboot!Worth(d[k])]
           Upto(m, s) == /\ s \in [0 .. m -> Nat] /\ s[0] = 0
                         /\ \A i \in 1 .. m : s[i] = s[i - 1] * B + w[i]
           S == {m \in Nat : m <= Len(d) => \E s : Upto(m, s)}
<1>1. Len(d) \in Nat /\ \A i \in 1 .. Len(d) : w[i] \in Nat
  <2>1. Len(d) \in Nat /\ \A i \in 1 .. Len(d) : d[i] \in Glyph
    BY LenProperties, ElementOfSeq
  <2>2. ASSUME NEW x \in Glyph PROVE Multiboot!Worth(x) \in Nat
    <3>1. PICK j \in 1 .. 16 : x = Multiboot!Digit[j]
      BY DEF Glyph
    <3>2. j - 1 \in 0 .. 15 /\ (j - 1) + 1 = j
      BY <3>1
    <3>3. Multiboot!Worth(Multiboot!Digit[(j - 1) + 1]) \in Nat
      <4>1. PICK n \in 0 .. 15 : n = j - 1
        BY <3>2
      <4>2. Multiboot!Worth(Multiboot!Digit[n + 1]) = n
        BY Glyphs
      <4> QED
        BY <4>1, <4>2
    <3> QED
      BY <3>1, <3>2, <3>3
  <2> QED
    BY <2>1, <2>2
<1>a. \A i \in 1 .. Len(d) : w[i] = Multiboot!Worth(d[i])
  OBVIOUS
<1> HIDE DEF w
<1>2. 0 \in S
  <2>1. Upto(0, [i \in 0 .. 0 |-> 0])
    OBVIOUS
  <2> QED
    BY <2>1
<1> HIDE DEF Upto
<1>3. ASSUME NEW m \in Nat, m \in S PROVE m + 1 \in S
  <2>1. SUFFICES ASSUME m + 1 <= Len(d) PROVE \E s : Upto(m + 1, s)
    OBVIOUS
  <2>2. PICK s : Upto(m, s)
    BY <1>1, <1>3, <2>1
  <2> DEFINE t == [i \in 0 .. m + 1 |-> IF i = m + 1 THEN s[m] * B + w[m + 1] ELSE s[i]]
  <2>3. m + 1 \in 1 .. Len(d) /\ w[m + 1] \in Nat /\ s[m] \in Nat /\ s[m] * B \in Nat
    BY <1>1, <2>1, <2>2 DEF Upto
  <2>4. \A i \in 0 .. m + 1 : t[i] \in Nat
    BY <2>2, <2>3 DEF Upto
  <2>5. t \in [0 .. m + 1 -> Nat] /\ t[0] = 0
    BY <2>2, <2>4 DEF Upto
  <2>6. \A i \in 1 .. m + 1 : t[i] = t[i - 1] * B + w[i]
    <3>1. \A i \in 0 .. m : t[i] = s[i]
      OBVIOUS
    <3>2. t[m + 1] = s[m] * B + w[m + 1]
      OBVIOUS
    <3> HIDE DEF t
    <3>3. ASSUME NEW i \in 1 .. m + 1 PROVE t[i] = t[i - 1] * B + w[i]
      <4>1. CASE i = m + 1
        BY <3>1, <3>2, <4>1
      <4>2. CASE i \in 1 .. m
        <5>1. i - 1 \in 0 .. m /\ i \in 0 .. m
          BY <4>2
        <5>2. t[i] = s[i] /\ t[i - 1] = s[i - 1]
          BY <3>1, <5>1
        <5>3. s[i] = s[i - 1] * B + w[i]
          BY <2>2, <4>2 DEF Upto
        <5> QED
          BY <5>2, <5>3
      <4> QED
        BY <4>1, <4>2
    <3> QED
      BY <3>3
  <2> QED
    BY <2>5, <2>6 DEF Upto
<1>4. PICK s : Upto(Len(d), s)
  <2> HIDE DEF S
  <2>1. Len(d) \in S
    BY <1>1, <1>2, <1>3, SetInduction
  <2> QED
    BY <1>1, <2>1 DEF S
<1>5. s = [k \in 0 .. Len(d) |->
             IF k = 0 THEN 0 ELSE s[k - 1] * B + Multiboot!Worth(d[k])]
  BY <1>1, <1>a, <1>4 DEF Upto
<1>6. PICK t : /\ t = [k \in 0 .. Len(d) |->
                         IF k = 0 THEN 0 ELSE t[k - 1] * B + Multiboot!Worth(d[k])]
               /\ Multiboot!ValueOf(d, B) = t[Len(d)]
  BY <1>5 DEF Multiboot!ValueOf
<1>7. \A i \in 0 .. Len(d) : t[i] = IF i = 0 THEN 0 ELSE t[i - 1] * B + w[i]
  BY <1>6, <1>a
<1> DEFINE E == {i \in Nat : i <= Len(d) => t[i] = s[i]}
<1>8. 0 \in E
  BY <1>1, <1>4, <1>7 DEF Upto
<1>9. ASSUME NEW i \in Nat, i \in E PROVE i + 1 \in E
  <2>1. SUFFICES ASSUME i + 1 <= Len(d) PROVE t[i + 1] = s[i + 1]
    OBVIOUS
  <2>2. i + 1 \in 1 .. Len(d) /\ i + 1 \in 0 .. Len(d) /\ (i + 1) - 1 = i /\ i + 1 # 0
    BY <1>1, <2>1
  <2>3. t[i] = s[i]
    BY <1>1, <1>9, <2>1
  <2>4. t[i + 1] = t[i] * B + w[i + 1]
    BY <1>7, <2>2
  <2>5. s[i + 1] = s[i] * B + w[i + 1]
    BY <1>4, <2>2 DEF Upto
  <2> QED
    BY <2>3, <2>4, <2>5
<1>10. t[Len(d)] = s[Len(d)]
  <2> HIDE DEF E
  <2>1. Len(d) \in E
    BY <1>1, <1>8, <1>9, SetInduction
  <2> QED
    BY <1>1, <2>1 DEF E
<1>11. Values(d, B, s)
  BY <1>4, <1>a DEF Values, Upto
<1> QED
  BY <1>6, <1>10, <1>11

(* A digit more.                                                           *)
LEMMA ValueMore ==
  ASSUME NEW B \in Nat, NEW d \in Seq(Glyph), NEW k \in 0 .. 15
  PROVE  /\ Append(d, Multiboot!Digit[k + 1]) \in Seq(Glyph)
         /\ Multiboot!ValueOf(Append(d, Multiboot!Digit[k + 1]), B)
              = Multiboot!ValueOf(d, B) * B + k
<1> DEFINE x == Multiboot!Digit[k + 1]
           e == Append(d, x)
           n == Len(d)
<1>1. x \in Glyph /\ Multiboot!Worth(x) = k
  BY Glyphs
<1> HIDE DEF x
<1>2. /\ n \in Nat /\ e \in Seq(Glyph) /\ Len(e) = n + 1 /\ e[n + 1] = x
      /\ \A j \in 1 .. n : e[j] = d[j]
  BY <1>1, LenProperties, AppendProperties
<1> HIDE DEF e, n
<1>3. PICK v : Values(d, B, v) /\ Multiboot!ValueOf(d, B) = v[n]
  BY ValuesExist DEF n
<1>4. PICK u : Values(e, B, u) /\ Multiboot!ValueOf(e, B) = u[n + 1]
  BY <1>2, ValuesExist
<1> DEFINE S == {m \in Nat : m <= n => u[m] = v[m]}
<1>5. 0 \in S
  BY <1>3, <1>4 DEF Values
<1>6. ASSUME NEW m \in Nat, m \in S PROVE m + 1 \in S
  <2>1. SUFFICES ASSUME m + 1 <= n PROVE u[m + 1] = v[m + 1]
    OBVIOUS
  <2>2. m + 1 \in 1 .. n /\ m + 1 \in 1 .. n + 1 /\ (m + 1) - 1 = m /\ u[m] = v[m]
    BY <1>2, <1>6, <2>1
  <2>3. v[m + 1] = v[m] * B + Multiboot!Worth(d[m + 1])
    BY <1>3, <2>2 DEF Values, n
  <2>4. u[m + 1] = u[m] * B + Multiboot!Worth(e[m + 1])
    BY <1>2, <1>4, <2>2 DEF Values
  <2> QED
    BY <1>2, <2>2, <2>3, <2>4
<1> HIDE DEF S
<1>7. n \in S
  BY <1>2, <1>5, <1>6, SetInduction
<1>8. u[n] = v[n]
  BY <1>2, <1>7 DEF S
<1>9. n + 1 \in 1 .. n + 1 /\ (n + 1) - 1 = n
  BY <1>2
<1>10. u[n + 1] = u[n] * B + Multiboot!Worth(e[n + 1])
  BY <1>2, <1>4, <1>9 DEF Values
<1>11. Multiboot!ValueOf(e, B) = Multiboot!ValueOf(d, B) * B + k
  BY <1>1, <1>2, <1>3, <1>4, <1>8, <1>10
<1> QED
  BY <1>2, <1>11 DEF e, x

LEMMA NoDigits == \A B \in Nat : Multiboot!ValueOf(<<>>, B) = 0
<1> TAKE B \in Nat
<1>1. <<>> \in Seq(Glyph) /\ Len(<<>>) = 0
  OBVIOUS
<1>2. PICK v : Values(<<>>, B, v) /\ Multiboot!ValueOf(<<>>, B) = v[0]
  BY <1>1, ValuesExist
<1> QED
  BY <1>2 DEF Values

-----------------------------------------------------------------------------
(* The digits of a number, from those of its quotient.                     *)
Written(B, d, m) ==
  /\ d \in [0 .. m -> Seq(Glyph)]
  /\ \A n \in 0 .. m :
       d[n] = Append(IF n < B THEN <<>> ELSE d[n \div B], Multiboot!Digit[(n % B) + 1])

LEMMA WrittenExists ==
  ASSUME NEW B \in 2 .. 16
  PROVE  \A m \in Nat : \E d : Written(B, d, m)
<1> DEFINE S == {m \in Nat : \E d : Written(B, d, m)}
<1>0. B \in Nat \ {0, 1} /\ B \in Nat \ {0} /\ 0 \in Nat
  OBVIOUS
<1>1. ASSUME NEW n \in Nat PROVE (n % B) + 1 \in 1 .. 16 /\ Multiboot!Digit[(n % B) + 1] \in Glyph
  <2>1. n % B \in 0 .. B - 1
    BY <1>0, DivModExists
  <2>2. n % B \in 0 .. 15
    BY <2>1
  <2> QED
    BY <2>2, Glyphs
<1>2. 0 \in S
  <2> DEFINE x == Multiboot!Digit[(0 % B) + 1]
             d == [n \in 0 .. 0 |-> Append(<<>>, x)]
  <2>1. x \in Glyph
    BY <1>1, <1>0
  <2> HIDE DEF x
  <2>2. Append(<<>>, x) \in Seq(Glyph)
    BY <2>1
  <2>3. d \in [0 .. 0 -> Seq(Glyph)] /\ d[0] = Append(<<>>, x)
    BY <2>2
  <2> HIDE DEF d
  <2>4. \A n \in 0 .. 0 : n = 0 /\ n < B
    OBVIOUS
  <2>5. Written(B, d, 0)
    BY <2>3, <2>4 DEF Written, x
  <2> QED
    BY <2>5
<1> HIDE DEF S
<1>3. ASSUME NEW m \in Nat, m \in S PROVE m + 1 \in S
  <2>1. PICK d : Written(B, d, m)
    BY <1>3 DEF S
  <2> DEFINE x == Multiboot!Digit[((m + 1) % B) + 1]
             y == IF m + 1 < B THEN <<>> ELSE d[(m + 1) \div B]
             e == [n \in 0 .. m + 1 |-> IF n = m + 1 THEN Append(y, x) ELSE d[n]]
  <2>2. x \in Glyph
    <3>1. m + 1 \in Nat
      OBVIOUS
    <3> QED
      BY <1>1, <3>1
  <2>3. y \in Seq(Glyph)
    <3>1. CASE m + 1 < B
      BY <3>1
    <3>2. CASE m + 1 >= B
      <4>1. (m + 1) \div B \in 1 .. (m + 1) - 1
        BY <1>0, <3>2, Smaller
      <4>2. (m + 1) \div B \in 0 .. m
        BY <4>1
      <4> QED
        BY <2>1, <3>2, <4>2 DEF Written
    <3> QED
      BY <3>1, <3>2
  <2>4. Append(y, x) \in Seq(Glyph)
    BY <2>2, <2>3, AppendProperties
  <2>5. /\ e[m + 1] = Append(y, x)
        /\ \A n \in 0 .. m : e[n] = d[n]
    OBVIOUS
  <2>6. e \in [0 .. m + 1 -> Seq(Glyph)]
    <3>1. \A n \in 0 .. m + 1 : e[n] \in Seq(Glyph)
      <4> HIDE DEF x, y
      <4>1. \A n \in 0 .. m : d[n] \in Seq(Glyph)
        BY <2>1 DEF Written
      <4>2. \A n \in 0 .. m + 1 : n = m + 1 \/ n \in 0 .. m
        OBVIOUS
      <4> HIDE DEF e
      <4> QED
        BY <2>4, <2>5, <4>1, <4>2
    <3> QED
      BY <3>1
  <2> HIDE DEF e
  <2>7. ASSUME NEW n \in 0 .. m + 1
        PROVE  e[n] = Append(IF n < B THEN <<>> ELSE e[n \div B], Multiboot!Digit[(n % B) + 1])
    <3>1. n \in Nat
      OBVIOUS
    <3>2. n >= B => n \div B \in 0 .. m /\ (n <= m => n \div B \in 0 .. m)
      <4>1. n >= B => n \div B \in 1 .. n - 1
        BY <1>0, <3>1, Smaller
      <4> QED
        BY <4>1
    <3>3. n >= B => e[n \div B] = d[n \div B]
      BY <2>5, <3>2
    <3>4. n < B \/ n >= B
      BY <3>1
    <3>5. ~(n < B) <=> n >= B
      BY <3>1
    <3>6. CASE n = m + 1
      BY <2>5, <3>3, <3>5, <3>6
    <3>7. CASE n \in 0 .. m
      BY <2>1, <2>5, <3>3, <3>5, <3>7 DEF Written
    <3> QED
      BY <3>6, <3>7
  <2>8. Written(B, e, m + 1)
    BY <2>6, <2>7 DEF Written
  <2> QED
    BY <2>8 DEF S
<1>4. Nat \subseteq S
  BY <1>2, <1>3, SetInduction
<1> QED
  BY <1>4 DEF S

LEMMA WrittenAgree ==
  ASSUME NEW B \in 2 .. 16, NEW m \in Nat, NEW k \in Nat, NEW d, NEW e,
         Written(B, d, m), Written(B, e, k)
  PROVE  \A n \in Nat : n <= m /\ n <= k => d[n] = e[n]
<1> DEFINE S == {n \in Nat : \A j \in 0 .. n : j <= m /\ j <= k => d[j] = e[j]}
<1>0. B \in Nat \ {0, 1}
  OBVIOUS
<1>1. 0 \in S
  <2>1. 0 < B /\ 0 \in 0 .. m /\ 0 \in 0 .. k /\ \A j \in 0 .. 0 : j = 0
    OBVIOUS
  <2>2. d[0] = e[0]
    BY <2>1 DEF Written
  <2> QED
    BY <2>1, <2>2
<1>2. ASSUME NEW n \in Nat, n \in S PROVE n + 1 \in S
  <2>1. ASSUME n + 1 <= m, n + 1 <= k PROVE d[n + 1] = e[n + 1]
    <3>1. n + 1 \in 0 .. m /\ n + 1 \in 0 .. k
      BY <2>1
    <3>2. n + 1 >= B => d[(n + 1) \div B] = e[(n + 1) \div B]
      <4>1. n + 1 >= B => (n + 1) \div B \in 1 .. (n + 1) - 1
        BY <1>0, Smaller
      <4>2. n + 1 >= B => (n + 1) \div B \in 0 .. n /\ (n + 1) \div B <= m /\ (n + 1) \div B <= k
        BY <2>1, <4>1
      <4> QED
        BY <1>2, <4>2
    <3>3. ~(n + 1 < B) <=> n + 1 >= B
      OBVIOUS
    <3> QED
      BY <3>1, <3>2, <3>3 DEF Written
  <2>2. \A j \in 0 .. n + 1 : j = n + 1 \/ j \in 0 .. n
    OBVIOUS
  <2> QED
    BY <1>2, <2>1, <2>2
<1> HIDE DEF S
<1>3. Nat \subseteq S
  BY <1>1, <1>2, SetInduction
<1>4. \A n \in Nat : n \in 0 .. n
  OBVIOUS
<1> QED
  BY <1>3, <1>4 DEF S

LEMMA DigitsOf ==
  ASSUME NEW B \in 2 .. 16, NEW n \in Nat
  PROVE  /\ Multiboot!Digits(n, B) \in Seq(Glyph)
         /\ Multiboot!Digits(n, B)
              = Append(IF n < B THEN <<>> ELSE Multiboot!Digits(n \div B, B),
                       Multiboot!Digit[(n % B) + 1])
<1> DEFINE part(m) == CHOOSE d : Written(B, d, m)
           all == [m \in Nat |-> part(m)[m]]
<1>0. B \in Nat \ {0, 1}
  OBVIOUS
<1>1. \A m \in Nat : Written(B, part(m), m)
  BY WrittenExists
<1> HIDE DEF part
<1>2. ASSUME NEW m \in Nat
      PROVE  /\ all[m] \in Seq(Glyph)
             /\ all[m] = Append(IF m < B THEN <<>> ELSE all[m \div B],
                                Multiboot!Digit[(m % B) + 1])
  <2>1. Written(B, part(m), m) /\ m \in 0 .. m
    BY <1>1
  <2>2. part(m)[m] \in Seq(Glyph)
    BY <2>1 DEF Written
  <2>3. part(m)[m] = Append(IF m < B THEN <<>> ELSE part(m)[m \div B],
                            Multiboot!Digit[(m % B) + 1])
    BY <2>1 DEF Written
  <2>4. CASE m < B
    BY <2>2, <2>3, <2>4
  <2>5. CASE m >= B
    <3>1. PICK q : q = m \div B
      OBVIOUS
    <3>2. q \in 1 .. m - 1
      BY <1>0, <2>5, <3>1, Smaller
    <3>3. q \in Nat /\ q <= m /\ q <= q
      BY <3>2
    <3>4. Written(B, part(q), q)
      BY <1>1, <3>3
    <3>5. part(m)[q] = part(q)[q]
      BY <2>1, <3>3, <3>4, WrittenAgree
    <3>6. all[q] = part(q)[q] /\ all[m] = part(m)[m]
      BY <3>3
    <3>7. ~(m < B)
      BY <2>5
    <3> HIDE DEF all
    <3> QED
      BY <2>2, <2>3, <3>1, <3>5, <3>6, <3>7
  <2>6. m < B \/ m >= B
    OBVIOUS
  <2> HIDE DEF all
  <2> QED
    BY <2>4, <2>5, <2>6
<1>3. all = [m \in Nat |-> Append(IF m < B THEN <<>> ELSE all[m \div B],
                                  Multiboot!Digit[(m % B) + 1])]
  <2>1. all = [m \in Nat |-> all[m]]
    OBVIOUS
  <2> HIDE DEF all
  <2> QED
    BY <1>2, <2>1
<1> HIDE DEF all
<1> DEFINE F == CHOOSE f : f = [m \in Nat |-> Append(IF m < B THEN <<>> ELSE f[m \div B],
                                                Multiboot!Digit[(m % B) + 1])]
<1>4. F = [m \in Nat |-> Append(IF m < B THEN <<>> ELSE F[m \div B],
                                Multiboot!Digit[(m % B) + 1])]
  BY <1>3
<1>5. \A m \in Nat : Multiboot!Digits(m, B) = F[m]
  BY DEF Multiboot!Digits
<1> HIDE DEF F
<1>6. \A m \in Nat : F[m] = Append(IF m < B THEN <<>> ELSE F[m \div B],
                                   Multiboot!Digit[(m % B) + 1])
  BY <1>4
<1>7. ASSUME NEW m \in Nat PROVE m \div B \in Nat
  BY <1>0, DivModExists
<1> DEFINE S == {m \in Nat : \A j \in 0 .. m : F[j] = all[j]}
<1>8. 0 \in S
  <2>1. 0 < B /\ \A j \in 0 .. 0 : j = 0
    OBVIOUS
  <2>2. F[0] = all[0]
    BY <1>2, <1>6, <2>1
  <2> QED
    BY <2>1, <2>2
<1>9. ASSUME NEW m \in Nat, m \in S PROVE m + 1 \in S
  <2>1. F[m + 1] = all[m + 1]
    <3>1. m + 1 >= B => F[(m + 1) \div B] = all[(m + 1) \div B]
      <4>1. m + 1 >= B => (m + 1) \div B \in 1 .. (m + 1) - 1
        BY <1>0, Smaller
      <4>2. m + 1 >= B => (m + 1) \div B \in 0 .. m
        BY <4>1
      <4> QED
        BY <1>9, <4>2
    <3>2. ~(m + 1 < B) <=> m + 1 >= B
      OBVIOUS
    <3>3. m + 1 \in Nat
      OBVIOUS
    <3>4. F[m + 1] = Append(IF m + 1 < B THEN <<>> ELSE F[(m + 1) \div B],
                            Multiboot!Digit[((m + 1) % B) + 1])
      BY <1>6, <3>3
    <3>5. all[m + 1] = Append(IF m + 1 < B THEN <<>> ELSE all[(m + 1) \div B],
                              Multiboot!Digit[((m + 1) % B) + 1])
      BY <1>2, <3>3
    <3> QED
      BY <3>1, <3>2, <3>4, <3>5
  <2>2. \A j \in 0 .. m + 1 : j = m + 1 \/ j \in 0 .. m
    OBVIOUS
  <2> QED
    BY <1>9, <2>1, <2>2
<1> HIDE DEF S
<1>10. n \in S /\ n \in 0 .. n
  BY <1>8, <1>9, SetInduction
<1>11. F[n] = all[n]
  BY <1>10 DEF S
<1> QED
  BY <1>2, <1>5, <1>6, <1>7, <1>11

(* They read back as the number, and have no zero in front.                *)
LEMMA DigitsReadBack ==
  ASSUME NEW B \in 2 .. 16, NEW n \in Nat
  PROVE  /\ Multiboot!Digits(n, B) \in Seq(Glyph)
         /\ Multiboot!ValueOf(Multiboot!Digits(n, B), B) = n
         /\ Head(Multiboot!Digits(n, B)) # "-"
         /\ Head(Multiboot!Digits(n, B)) = "0" => n = 0
<1> DEFINE Good(m) == LET d == Multiboot!Digits(m, B)
                      IN  /\ d \in Seq(Glyph) /\ d # <<>>
                          /\ Multiboot!ValueOf(d, B) = m
                          /\ d[1] # "-" /\ (d[1] = "0" => m = 0)
           S == {m \in Nat : \A j \in 0 .. m : Good(j)}
<1>0. B \in Nat \ {0, 1} /\ B \in Nat \ {0} /\ B \in Nat
  OBVIOUS
<1>1. ASSUME NEW m \in Nat, m >= B => Good(m \div B) PROVE Good(m)
  <2> DEFINE q == m \div B
             r == m % B
             d == IF m < B THEN <<>> ELSE Multiboot!Digits(q, B)
             x == Multiboot!Digit[r + 1]
             e == Append(d, x)
  <2>1. q \in Nat /\ r \in 0 .. B - 1 /\ m = q * B + r
    BY <1>0, DivModExists
  <2>2. (m < B => q = 0 /\ r = m) /\ (m >= B => q \in 1 .. m - 1)
    BY <1>0, Smaller
  <2>3. Multiboot!Digits(m, B) = e
    BY DigitsOf
  <2>4. /\ m < B => d = <<>>
        /\ ~(m < B) => d = Multiboot!Digits(q, B)
        /\ m < B \/ m >= B
        /\ ~(m < B) <=> m >= B
    OBVIOUS
  <2>5. m >= B => Good(q)
    BY <1>1
  <2> HIDE DEF q, r, d
  <2>6. d \in Seq(Glyph) /\ Multiboot!ValueOf(d, B) = q
    <3>1. CASE m < B
      <4>1. d = <<>> /\ q = 0
        BY <2>2, <2>4, <3>1
      <4>2. <<>> \in Seq(Glyph)
        OBVIOUS
      <4> QED
        BY <1>0, <4>1, <4>2, NoDigits
    <3>2. CASE m >= B
      BY <2>4, <2>5, <3>2
    <3> QED
      BY <2>4, <3>1, <3>2
  <2>7. r \in 0 .. 15
    BY <2>1
  <2>8. e \in Seq(Glyph) /\ Multiboot!ValueOf(e, B) = q * B + r
    BY <1>0, <2>6, <2>7, ValueMore
  <2>9. x # "-" /\ (x = "0" => r = 0)
    BY <2>7, Glyphs
  <2>10. /\ Len(d) \in Nat /\ Len(e) = Len(d) + 1 /\ e[Len(d) + 1] = x
         /\ \A j \in 1 .. Len(d) : e[j] = d[j]
    <3>1. x \in Glyph
      BY <2>7, Glyphs
    <3> HIDE DEF x
    <3> QED
      BY <2>6, <3>1, LenProperties, AppendProperties
  <2> HIDE DEF e, x
  <2>11. e # <<>>
    <3>1. Len(<<>>) = 0
      OBVIOUS
    <3> QED
      BY <2>10, <3>1
  <2>12. e[1] # "-" /\ (e[1] = "0" => m = 0)
    <3>1. CASE m < B
      <4>1. d = <<>> /\ Len(<<>>) = 0 /\ r = m
        BY <2>2, <2>4, <3>1
      <4>2. e[1] = x
        BY <2>10, <4>1
      <4> QED
        BY <2>9, <4>1, <4>2
    <3>2. CASE m >= B
      <4>1. d # <<>> /\ d[1] # "-" /\ (d[1] = "0" => q = 0) /\ q \in 1 .. m - 1
        BY <2>2, <2>4, <2>5, <3>2
      <4>2. Len(d) # 0
        BY <2>6, <4>1, EmptySeq
      <4>3. 1 \in 1 .. Len(d)
        BY <2>10, <4>2
      <4>4. e[1] = d[1]
        BY <2>10, <4>3
      <4>5. q # 0
        BY <4>1
      <4> QED
        BY <4>1, <4>4, <4>5
    <3> QED
      BY <2>4, <3>1, <3>2
  <2> QED
    BY <2>1, <2>3, <2>8, <2>11, <2>12
<1> HIDE DEF Good
<1>2. 0 \in S
  <2>1. ~(0 >= B) /\ \A j \in 0 .. 0 : j = 0
    OBVIOUS
  <2> QED
    BY <1>1, <2>1
<1>3. ASSUME NEW m \in Nat, m \in S PROVE m + 1 \in S
  <2>1. m + 1 >= B => Good((m + 1) \div B)
    <3>1. m + 1 >= B => (m + 1) \div B \in 1 .. (m + 1) - 1
      BY <1>0, Smaller
    <3>2. m + 1 >= B => (m + 1) \div B \in 0 .. m
      BY <3>1
    <3> QED
      BY <1>3, <3>2
  <2>2. m + 1 \in Nat /\ \A j \in 0 .. m + 1 : j = m + 1 \/ j \in 0 .. m
    OBVIOUS
  <2>3. Good(m + 1)
    BY <1>1, <2>1, <2>2
  <2> QED
    BY <1>3, <2>2, <2>3
<1> HIDE DEF S
<1>4. n \in S /\ n \in 0 .. n
  BY <1>2, <1>3, SetInduction
<1>5. Good(n)
  BY <1>4 DEF S
<1> DEFINE d == Multiboot!Digits(n, B)
<1>6. /\ d \in Seq(Glyph) /\ d # <<>> /\ Multiboot!ValueOf(d, B) = n
      /\ d[1] # "-" /\ (d[1] = "0" => n = 0)
  BY <1>5 DEF Good
<1> HIDE DEF d
<1>7. Head(d) = d[1]
  BY <1>6, HeadTailProperties
<1>8. Head(d) # "-" /\ (Head(d) = "0" => n = 0)
  BY <1>6, <1>7
<1> QED
  BY <1>6, <1>8 DEF d

(* An argument as an int, and as an unsigned long again.                   *)
LEMMA LongAgain ==
  ASSUME WordSize \in Nat, NEW v \in Multiboot!Long
  PROVE  /\ Multiboot!AsInt(v) % WordSize = v
         /\ 2 * v < WordSize => Multiboot!AsInt(v) = v
<1>1. WordSize \in Nat \ {0} /\ v \in 0 .. WordSize - 1 /\ v \in Nat
  BY DEF Multiboot!Long
<1>2. 0 * WordSize + v = v /\ (-1) * WordSize + v = v - WordSize /\ 0 \in Int /\ -1 \in Int
  BY <1>1
<1>3. v % WordSize = v
  <2>1. (0 * WordSize + v) % WordSize = v
    BY <1>1, <1>2, DivMod
  <2> QED
    BY <1>2, <2>1
<1>4. (v - WordSize) % WordSize = v
  <2>1. ((-1) * WordSize + v) % WordSize = v
    BY <1>1, <1>2, DivMod
  <2> QED
    BY <1>2, <2>1
<1> QED
  BY <1>3, <1>4 DEF Multiboot!AsInt

LEMMA ReadsBack == Made /\ ReportInv => Multiboot!NumbersReadBack
<1> SUFFICES ASSUME Made, ReportInv, NEW k \in DOMAIN printed,
                    printed[k][1] \in {"d", "u", "x"}
             PROVE  LET number == printed[k][2]
                        text == Multiboot!Converted(printed[k])
                        divisor == IF printed[k][1] = "x" THEN 16 ELSE 10
                    IN  /\ Head(text) # "0" \/ number = 0
                        /\ IF Head(text) = "-"
                             THEN /\ printed[k][1] = "d"
                                  /\ number = -Multiboot!ValueOf(Tail(text), divisor)
                             ELSE number = Multiboot!ValueOf(text, divisor)
  BY DEF Multiboot!NumbersReadBack
<1> DEFINE c == printed[k][1]  v == printed[k][2]  arg == printed[k]
           B == IF c = "x" THEN 16 ELSE 10
<1>1. WordSize \in Nat /\ arg \in Argument
  <2>1. printed \in Seq(Argument)
    BY DEF ReportInv, GivenInv
  <2>2. k \in 1 .. Len(printed)
    BY <2>1, LenProperties
  <2> QED
    BY <2>1, <2>2, ElementOfSeq DEF Made
<1>2. v \in Multiboot!Long /\ (c = "d" => 2 * v < WordSize)
  <2>1. \/ arg \in {"u", "x", "0x"} \X Multiboot!Long
        \/ arg \in {"d"} \X {n \in Multiboot!Long : 2 * n < WordSize}
        \/ arg \in {"text"} \X Token
    BY <1>1 DEF Argument
  <2>2. ~(arg \in {"text"} \X Token)
    OBVIOUS
  <2> QED
    BY <2>1, <2>2
<1>3. c \in {"d", "u", "x"}
  OBVIOUS
<1>4. Multiboot!Converted(arg) = Multiboot!itoa(c, Multiboot!AsInt(v))
  BY <1>3 DEF Multiboot!Converted
<1>5. v \in Nat /\ B \in 2 .. 16
  BY <1>1, <1>2 DEF Multiboot!Long
<1>6. Multiboot!AsInt(v) % WordSize = v /\ (2 * v < WordSize => Multiboot!AsInt(v) = v)
  BY <1>1, <1>2, LongAgain
<1>7. c = "d" => ~(Multiboot!AsInt(v) < 0)
  BY <1>2, <1>5, <1>6
<1> HIDE DEF c, v, arg
<1>8. Multiboot!itoa(c, Multiboot!AsInt(v)) = Multiboot!Digits(v, B)
  BY <1>6, <1>7 DEF Multiboot!itoa
<1>9. /\ Multiboot!ValueOf(Multiboot!Digits(v, B), B) = v
      /\ Head(Multiboot!Digits(v, B)) # "-"
      /\ Head(Multiboot!Digits(v, B)) = "0" => v = 0
  BY <1>5, DigitsReadBack
<1>10. /\ Head(Multiboot!Converted(arg)) # "0" \/ v = 0
       /\ Head(Multiboot!Converted(arg)) # "-"
       /\ v = Multiboot!ValueOf(Multiboot!Converted(arg), B)
  BY <1>4, <1>8, <1>9
<1> QED
  BY <1>10 DEF c, v, arg

(* MyToyOS1's printf writes every number as libc's does: the digits read   *)
(* back as the number, however many it has, and none of them is a zero in  *)
(* front (itoa, of kernel.c).                                              *)
THEOREM NumbersAreReadBack == Multiboot!MultibootSpec => []NumbersReadBack
<1>1. Multiboot!MultibootInit => ReportInv
  BY MadeHolds, ReportInit
<1>2. ReportInv /\ [Multiboot!MultibootNext]_(Multiboot!multibootVars) => ReportInv'
  BY MadeHolds, ReportNext
<1>3. ReportInv => NumbersReadBack
  BY MadeHolds, ReadsBack DEF NumbersReadBack
<1> QED
  BY <1>1, <1>2, <1>3, PTL DEF Multiboot!MultibootSpec

-----------------------------------------------------------------------------
(* MyToyOS1's screen.                                                      *)
Char == Glyph \cup {"glyph", "x"} \cup Token

LEMMA SameCardinality == \A s : Multiboot!Cardinality(s) = Cardinality(s)
  BY DEF Multiboot!Cardinality, Cardinality

(* The remainder of the next number.                                       *)
LEMMA NextRemainder ==
  ASSUME NEW C \in Nat \ {0}, NEW a \in Nat
  PROVE  /\ a % C \in 0 .. C - 1
         /\ (a + 1) % C = IF a % C = C - 1 THEN 0 ELSE (a % C) + 1
         /\ ((a % C) + 1) % C = (a + 1) % C
<1>1. PICK q, r : q = a \div C /\ r = a % C
  OBVIOUS
<1>2. q \in Nat /\ r \in 0 .. C - 1 /\ a = q * C + r
  BY <1>1, DivModExists
<1>3. r = C - 1 => (a + 1) % C = 0 /\ (r + 1) % C = 0
  <2>1. r = C - 1 => a + 1 = (q + 1) * C + 0 /\ r + 1 = 1 * C + 0
    BY <1>2
  <2>2. q + 1 \in Int /\ 1 \in Int /\ 0 \in 0 .. C - 1
    BY <1>2
  <2>3. ((q + 1) * C + 0) % C = 0
    BY <2>2, DivMod
  <2>4. (1 * C + 0) % C = 0
    BY <2>2, DivMod
  <2> QED
    BY <2>1, <2>3, <2>4
<1>4. r # C - 1 => (a + 1) % C = r + 1 /\ (r + 1) % C = r + 1
  <2>1. SUFFICES ASSUME r # C - 1 PROVE (a + 1) % C = r + 1 /\ (r + 1) % C = r + 1
    OBVIOUS
  <2>2. a + 1 = q * C + (r + 1) /\ r + 1 = 0 * C + (r + 1)
    BY <1>2
  <2>3. q \in Int /\ 0 \in Int /\ r + 1 \in 0 .. C - 1
    BY <1>2, <2>1
  <2>4. (q * C + (r + 1)) % C = r + 1
    BY <2>3, DivMod
  <2>5. (0 * C + (r + 1)) % C = r + 1
    BY <2>3, DivMod
  <2> QED
    BY <2>2, <2>4, <2>5
<1> QED
  BY <1>1, <1>2, <1>3, <1>4

(* Where lines of the text begin, and which of them is the last.           *)
LineStarts(d, k) == {j \in 0 .. k - 1 : j = 0 \/ d[j] = Multiboot!LineFeed}
IsBegin(d, k, b) == b \in LineStarts(d, k) /\ \A j \in LineStarts(d, k) : j <= b

LEMMA BeginIs ==
  ASSUME NEW d, NEW k \in Nat, NEW b, IsBegin(d, k, b)
  PROVE  Multiboot!LineBegin(d, k) = b /\ b \in 0 .. k - 1
<1>1. /\ \A j \in LineStarts(d, k) : j \in Nat
      /\ b \in LineStarts(d, k) /\ \A j \in LineStarts(d, k) : b >= j
      /\ b \in 0 .. k - 1
  BY DEF IsBegin, LineStarts
<1>2. Multiboot!LineBegin(d, k) = Multiboot!Max(LineStarts(d, k))
  BY DEF Multiboot!LineBegin, LineStarts
<1>3. Multiboot!Max(LineStarts(d, k))
        = CHOOSE x \in LineStarts(d, k) : \A y \in LineStarts(d, k) : x >= y
  BY DEF Multiboot!Max
<1> DEFINE m == CHOOSE x \in LineStarts(d, k) : \A y \in LineStarts(d, k) : x >= y
<1>4. m \in LineStarts(d, k) /\ \A y \in LineStarts(d, k) : m >= y
  BY <1>1
<1> HIDE DEF m
<1>5. m = b
  BY <1>1, <1>4
<1> QED
  BY <1>1, <1>2, <1>3, <1>5 DEF m

(* A character more leaves the places of the others.                       *)
LEMMA PlacesStay ==
  ASSUME NEW d \in Seq(Char), NEW x \in Char, NEW k \in 1 .. Len(d) + 1
  PROVE  /\ LineStarts(Append(d, x), k) = LineStarts(d, k)
         /\ Multiboot!Column(Append(d, x), k) = Multiboot!Column(d, k)
         /\ Multiboot!RowsAbove(Append(d, x), k) = Multiboot!RowsAbove(d, k)
         /\ Multiboot!Place(Append(d, x), k) = Multiboot!Place(d, k)
<1> DEFINE e == Append(d, x)  n == Len(d)
<1>1. n \in Nat /\ \A j \in 1 .. n : e[j] = d[j]
  BY LenProperties, AppendProperties
<1> HIDE DEF e, n
<1>2. k \in 1 .. n + 1
  BY DEF n
<1>3. ASSUME NEW i \in 1 .. n + 1
      PROVE  LineStarts(e, i) = LineStarts(d, i) /\ Multiboot!Column(e, i) = Multiboot!Column(d, i)
  <2>1. \A j \in 0 .. i - 1 : j = 0 \/ j \in 1 .. n
    BY <1>1
  <2>2. LineStarts(e, i) = LineStarts(d, i)
    BY <1>1, <2>1 DEF LineStarts
  <2> QED
    BY <2>2 DEF Multiboot!Column, Multiboot!LineBegin, LineStarts
<1>4. Multiboot!RowsAbove(e, k) = Multiboot!RowsAbove(d, k)
  <2>1. \A j \in 1 .. k - 1 : j \in 1 .. n /\ j \in 1 .. n + 1
    BY <1>1, <1>2
  <2> QED
    BY <1>1, <1>3, <2>1 DEF Multiboot!RowsAbove
<1>5. Multiboot!Place(e, k) = Multiboot!Place(d, k)
  BY <1>2, <1>3, <1>4 DEF Multiboot!Place
<1> QED
  BY <1>2, <1>3, <1>4, <1>5 DEF e

LEMMA RowsFinite ==
  ASSUME NEW d, NEW k \in Nat
  PROVE  /\ IsFiniteSet(Multiboot!RowsAbove(d, k))
         /\ Cardinality(Multiboot!RowsAbove(d, k)) \in Nat
<1>1. IsFiniteSet(1 .. k - 1)
  BY FS_Interval
<1>2. Multiboot!RowsAbove(d, k) \in SUBSET (1 .. k - 1)
  BY DEF Multiboot!RowsAbove
<1>3. IsFiniteSet(Multiboot!RowsAbove(d, k))
  BY <1>1, <1>2, FS_Subset
<1> QED
  BY <1>3, FS_CardinalityType

(* The place after it.                                                     *)
LEMMA NextPlace ==
  ASSUME ScreenMade, NEW d \in Seq(Char), NEW x \in Char,
         NEW b, IsBegin(d, Len(d) + 1, b), NEW column, NEW row,
         Multiboot!Place(d, Len(d) + 1) = <<column, row>>
  PROVE  /\ \E a : IsBegin(Append(d, x), Len(d) + 2, a)
         /\ column \in 0 .. COLUMNS - 1 /\ row \in 0 .. LINES - 1
         /\ Multiboot!Place(Append(d, x), Len(d) + 2)
              = IF x = Multiboot!LineFeed \/ column = COLUMNS - 1
                  THEN <<0, (row + 1) % LINES>>
                  ELSE <<column + 1, row>>
<1> DEFINE e == Append(d, x)  n == Len(d)
<1>1. n \in Nat /\ e[n + 1] = x /\ \A j \in 1 .. n : e[j] = d[j]
  BY LenProperties, AppendProperties
<1>2. \A k \in 1 .. n + 1 : /\ LineStarts(e, k) = LineStarts(d, k)
                            /\ Multiboot!Column(e, k) = Multiboot!Column(d, k)
                            /\ Multiboot!RowsAbove(e, k) = Multiboot!RowsAbove(d, k)
  BY PlacesStay
<1>3. IsBegin(d, n + 1, b) /\ Multiboot!Place(d, n + 1) = <<column, row>>
  OBVIOUS
<1> HIDE DEF e, n
<1>4. n + 1 \in Nat /\ n + 1 \in 1 .. n + 1 /\ n + 2 \in Nat /\ (n + 2) - 1 = n + 1
      /\ (n + 1) - 1 = n
  BY <1>1
<1>5. Multiboot!LineBegin(d, n + 1) = b /\ b \in 0 .. n
  BY <1>3, <1>4, BeginIs
<1> DEFINE R == Multiboot!RowsAbove(d, n + 1)  r == Cardinality(R)
<1>6. column = (n - b) % COLUMNS /\ row = r % LINES
  <2>1. Multiboot!Column(d, n + 1) = (n - b) % COLUMNS
    BY <1>4, <1>5 DEF Multiboot!Column
  <2> QED
    BY <1>3, <2>1, SameCardinality DEF Multiboot!Place
<1>7. r \in Nat /\ IsFiniteSet(R)
  BY <1>4, RowsFinite
<1>8. n - b \in Nat
  BY <1>1, <1>5
<1>9. /\ column \in 0 .. COLUMNS - 1
      /\ ((n - b) + 1) % COLUMNS = IF column = COLUMNS - 1 THEN 0 ELSE column + 1
  BY <1>6, <1>8, NextRemainder DEF ScreenMade
<1>10. row \in 0 .. LINES - 1 /\ (row + 1) % LINES = (r + 1) % LINES
  <2> HIDE DEF r
  <2> QED
    BY <1>6, <1>7, NextRemainder DEF ScreenMade
<1>11. LineStarts(e, n + 2) = IF x = Multiboot!LineFeed THEN LineStarts(d, n + 1) \cup {n + 1}
                                                     ELSE LineStarts(d, n + 1)
  <2>1. 0 .. n + 1 = (0 .. n) \cup {n + 1} /\ n + 1 # 0
    BY <1>1
  <2>2. LineStarts(e, n + 2) = {j \in 0 .. n + 1 : j = 0 \/ e[j] = Multiboot!LineFeed}
    BY <1>4 DEF LineStarts
  <2>3. LineStarts(e, n + 1) = {j \in 0 .. n : j = 0 \/ e[j] = Multiboot!LineFeed}
    BY <1>4 DEF LineStarts
  <2>4. LineStarts(e, n + 1) = LineStarts(d, n + 1)
    BY <1>2, <1>4
  <2> QED
    BY <1>1, <2>1, <2>2, <2>3, <2>4
<1>12. Multiboot!RowsAbove(e, n + 2)
         = IF x = Multiboot!LineFeed \/ column = COLUMNS - 1 THEN R \cup {n + 1} ELSE R
  <2>1. 1 .. n + 1 = (1 .. n) \cup {n + 1}
    BY <1>1
  <2>2. Multiboot!RowsAbove(e, n + 2)
          = {j \in 1 .. n + 1 : e[j] = Multiboot!LineFeed \/ Multiboot!Column(e, j) = COLUMNS - 1}
    BY <1>4 DEF Multiboot!RowsAbove
  <2>3. Multiboot!RowsAbove(e, n + 1)
          = {j \in 1 .. n : e[j] = Multiboot!LineFeed \/ Multiboot!Column(e, j) = COLUMNS - 1}
    BY <1>4 DEF Multiboot!RowsAbove
  <2>4. Multiboot!RowsAbove(e, n + 1) = R
    BY <1>2, <1>4
  <2>5. Multiboot!Column(e, n + 1) = column
    BY <1>2, <1>3, <1>4 DEF Multiboot!Place
  <2> HIDE DEF R
  <2> QED
    BY <1>1, <2>1, <2>2, <2>3, <2>4, <2>5
<1>13. n + 1 \notin R
  BY <1>1, <1>4 DEF Multiboot!RowsAbove
<1>14. Cardinality(R \cup {n + 1}) = r + 1
  BY <1>7, <1>13, FS_AddElement
<1>15. \A j \in LineStarts(d, n + 1) : j \in 0 .. n /\ j <= b
  BY <1>3, <1>4 DEF IsBegin, LineStarts
<1>16. b \in LineStarts(d, n + 1)
  BY <1>3 DEF IsBegin
<1> DEFINE p == Multiboot!Place(e, n + 2)
<1>17. p = <<((n + 1) - Multiboot!LineBegin(e, n + 2)) % COLUMNS,
             Cardinality(Multiboot!RowsAbove(e, n + 2)) % LINES>>
  <2>1. Multiboot!Column(e, n + 2) = ((n + 1) - Multiboot!LineBegin(e, n + 2)) % COLUMNS
    BY <1>4, Zenon DEF Multiboot!Column
  <2>2. Multiboot!Cardinality(Multiboot!RowsAbove(e, n + 2))
          = Cardinality(Multiboot!RowsAbove(e, n + 2))
    BY SameCardinality, Zenon
  <2> QED
    BY <2>1, <2>2, Zenon DEF Multiboot!Place
<1> HIDE DEF p, R, r
<1>18. CASE x = Multiboot!LineFeed
  <2>1. IsBegin(e, n + 2, n + 1)
    BY <1>1, <1>11, <1>15, <1>18 DEF IsBegin
  <2>2. Multiboot!LineBegin(e, n + 2) = n + 1
    BY <1>4, <2>1, BeginIs
  <2>3. (n + 1) - (n + 1) = 0 /\ 0 % COLUMNS = 0
    <3>1. 0 * COLUMNS + 0 = 0 /\ 0 \in Int /\ 0 \in 0 .. COLUMNS - 1 /\ COLUMNS \in Nat \ {0}
      BY DEF ScreenMade
    <3>2. (0 * COLUMNS + 0) % COLUMNS = 0
      BY <3>1, DivMod
    <3> QED
      BY <1>1, <3>1, <3>2
  <2>4. p = <<0, (r + 1) % LINES>>
    BY <1>12, <1>14, <1>17, <1>18, <2>2, <2>3
  <2> QED
    BY <1>9, <1>10, <1>18, <2>1, <2>4 DEF p, e, n
<1>19. CASE x # Multiboot!LineFeed
  <2>1. IsBegin(e, n + 2, b)
    BY <1>11, <1>15, <1>16, <1>19 DEF IsBegin
  <2>2. Multiboot!LineBegin(e, n + 2) = b
    BY <1>4, <2>1, BeginIs
  <2>3. (n + 1) - b = (n - b) + 1
    BY <1>1, <1>5
  <2>4. p = IF column = COLUMNS - 1 THEN <<0, (row + 1) % LINES>> ELSE <<column + 1, row>>
    <3>1. CASE column = COLUMNS - 1
      BY <1>9, <1>10, <1>12, <1>14, <1>17, <2>2, <2>3, <3>1
    <3>2. CASE column # COLUMNS - 1
      <4>1. Cardinality(Multiboot!RowsAbove(e, n + 2)) % LINES = row
        BY <1>6, <1>12, <1>19, <3>2 DEF r
      <4> QED
        BY <1>9, <1>17, <2>2, <2>3, <3>2, <4>1
    <3> QED
      BY <3>1, <3>2
  <2> QED
    BY <1>9, <1>10, <1>19, <2>1, <2>4 DEF p, e, n
<1> QED
  BY <1>18, <1>19

(* What printf makes of its arguments.                                     *)
Conv(g) == [k \in DOMAIN g |-> Multiboot!Converted(g[k])]

LEMMA ConvertedIsText ==
  ASSUME WordSize \in Nat, NEW arg \in Argument
  PROVE  Multiboot!Converted(arg) \in Seq(Char)
<1>1. CASE \/ arg \in {"u", "x", "0x"} \X Multiboot!Long
           \/ arg \in {"d"} \X {n \in Multiboot!Long : 2 * n < WordSize}
  <2> DEFINE c == arg[1]  v == arg[2]  B == IF c = "x" THEN 16 ELSE 10
  <2>1. c \in {"d", "u", "x", "0x"} /\ v \in Multiboot!Long /\ (c = "d" => 2 * v < WordSize)
    BY <1>1
  <2>2. CASE c = "0x"
    <3>1. Multiboot!Converted(arg) = <<"glyph", "x">>
      BY <2>2 DEF Multiboot!Converted
    <3> QED
      BY <3>1 DEF Char
  <2>3. CASE c # "0x"
    <3>1. v \in Nat /\ B \in 2 .. 16
      BY <2>1 DEF Multiboot!Long
    <3>2. Multiboot!AsInt(v) % WordSize = v /\ (2 * v < WordSize => Multiboot!AsInt(v) = v)
      BY <2>1, LongAgain
    <3>3. c = "d" => ~(Multiboot!AsInt(v) < 0)
      BY <2>1, <3>1, <3>2
    <3>4. Multiboot!Converted(arg) = Multiboot!itoa(c, Multiboot!AsInt(v))
      BY <2>1, <2>3 DEF Multiboot!Converted
    <3> HIDE DEF c, v
    <3>5. Multiboot!itoa(c, Multiboot!AsInt(v)) = Multiboot!Digits(v, B)
      BY <3>2, <3>3 DEF Multiboot!itoa
    <3>6. Multiboot!Digits(v, B) \in Seq(Glyph)
      BY <3>1, DigitsReadBack
    <3>7. \A s \in Seq(Glyph) : s \in Seq(Char)
      BY DEF Char
    <3> QED
      BY <3>4, <3>5, <3>6, <3>7
  <2> QED
    BY <2>2, <2>3
<1>2. CASE arg \in {"text"} \X Token
  <2>1. arg[1] = "text" /\ arg[2] \in Token
    BY <1>2
  <2>2. Multiboot!Converted(arg) = <<arg[2]>>
    BY <2>1 DEF Multiboot!Converted
  <2> QED
    BY <2>1, <2>2 DEF Char
<1> QED
  BY <1>1, <1>2 DEF Argument

LEMMA ConvIsText ==
  ASSUME WordSize \in Nat, NEW g \in Seq(Argument)
  PROVE  Conv(g) \in Seq(Seq(Char)) /\ Len(Conv(g)) = Len(g) /\ DOMAIN g = 1 .. Len(g)
<1>1. DOMAIN g = 1 .. Len(g) /\ Len(g) \in Nat
  BY LenProperties
<1>2. \A k \in 1 .. Len(g) : Multiboot!Converted(g[k]) \in Seq(Char)
  BY ConvertedIsText, ElementOfSeq
<1>3. Conv(g) = [k \in 1 .. Len(g) |-> Multiboot!Converted(g[k])]
  BY <1>1 DEF Conv
<1> QED
  BY <1>1, <1>2, <1>3

LEMMA OutMore ==
  ASSUME WordSize \in Nat, NEW p \in Seq(Argument), NEW g \in Seq(Argument)
  PROVE  /\ FlattenSeq(Conv(p \o g)) = FlattenSeq(Conv(p)) \o FlattenSeq(Conv(g))
         /\ FlattenSeq(Conv(p)) \in Seq(Char) /\ FlattenSeq(Conv(g)) \in Seq(Char)
<1>1. PICK w : w = p \o g
  OBVIOUS
<1>2. /\ w \in Seq(Argument) /\ Len(w) = Len(p) + Len(g) /\ Len(p) \in Nat /\ Len(g) \in Nat
      /\ \A j \in 1 .. Len(p) + Len(g) : w[j] = IF j <= Len(p) THEN p[j] ELSE g[j - Len(p)]
  BY <1>1, Joined
<1> DEFINE s == Conv(p)  t == Conv(g)  u == Conv(w)  m == Len(p)  n == Len(g)
<1>3. /\ s \in Seq(Seq(Char)) /\ Len(s) = m /\ t \in Seq(Seq(Char)) /\ Len(t) = n
      /\ u \in Seq(Seq(Char)) /\ Len(u) = m + n
  BY <1>2, ConvIsText
<1>4. /\ \A j \in 1 .. m : s[j] = Multiboot!Converted(p[j])
      /\ \A j \in 1 .. n : t[j] = Multiboot!Converted(g[j])
      /\ \A j \in 1 .. m + n : u[j] = Multiboot!Converted(w[j])
  BY <1>2, ConvIsText DEF Conv
<1> HIDE DEF s, t, u, m, n
<1>5. m \in Nat /\ n \in Nat
  BY <1>2 DEF m, n
<1>6. PICK v : v = s \o t
  OBVIOUS
<1>7. /\ v \in Seq(Seq(Char)) /\ Len(v) = m + n
      /\ \A j \in 1 .. m + n : v[j] = IF j <= m THEN s[j] ELSE t[j - m]
  BY <1>3, <1>6, Joined
<1>8. \A j \in 1 .. m + n : u[j] = v[j]
  <2>1. ASSUME NEW j \in 1 .. m + n PROVE u[j] = v[j]
    <3>1. CASE j <= m
      <4>1. j \in 1 .. m
        BY <1>5, <3>1
      <4> QED
        BY <1>2, <1>4, <1>7, <3>1, <4>1 DEF m, n
    <3>2. CASE ~(j <= m)
      <4>1. j - m \in 1 .. n
        BY <1>5, <3>2
      <4> QED
        BY <1>2, <1>4, <1>7, <3>2, <4>1 DEF m, n
    <3> QED
      BY <3>1, <3>2
  <2> QED
    BY <2>1
<1>9. u = v
  BY <1>3, <1>7, <1>8, SeqEqual
<1>10. FlattenSeq(s \o t) = FlattenSeq(s) \o FlattenSeq(t)
       /\ FlattenSeq(s) \in Seq(Char) /\ FlattenSeq(t) \in Seq(Char)
  BY <1>3, FlatJoined
<1> QED
  BY <1>1, <1>6, <1>9, <1>10 DEF s, t, u

LEMMA OutIs == Multiboot!Out = FlattenSeq(Conv(printed))
  BY SameFlatten DEF Multiboot!Out, Conv

-----------------------------------------------------------------------------
(* What cmain gives printf, as ReportNext has it, and what is pending then. *)
Gives(g) ==
  g \in Seq(Argument) /\ printed' = printed \o g /\ pending_' = FlattenSeq(Conv(g))

LEMMA Put ==
  ASSUME NEW g \in Seq(Argument), Multiboot!printf(g)
  PROVE  Gives(g)
BY SameFlatten DEF Multiboot!printf, Conv, Gives

LEMMA PutNothing ==
  ASSUME printed \in Seq(Argument), pending_ = <<>>,
         UNCHANGED <<pending_, printed>>
  PROVE  Gives(<<>>)
<1>1. Conv(<<>>) = <<>>
  BY DEF Conv
<1>2. FlattenSeq(<<>>) = <<>>
  BY DEF FlattenSeq
<1> QED
  BY <1>1, <1>2, Unprinted DEF Gives

LEMMA CmainGives ==
  ASSUME ReportInv, Multiboot!WellMade(mbi), WordSize \in Nat, mbi' = mbi, pending_ = <<>>,
         \/ Multiboot!CheckMagic \/ Multiboot!PrintNumbers \/ Multiboot!CountModules
         \/ Multiboot!PrintModule \/ Multiboot!PrintSymbols \/ Multiboot!StartMap
         \/ Multiboot!PrintRegion \/ Multiboot!Halt
  PROVE  \E g : Gives(g)
<1>1. printed \in Seq(Argument)
  BY DEF ReportInv, GivenInv
<1>2. /\ mbi.number \in Multiboot!Long
      /\ mbi.mmap_addr \in Multiboot!Long /\ mbi.mmap_length \in Multiboot!Long
  BY DEF Multiboot!WellMade
<1>3. /\ <<"u", mbi.number>> \in Argument /\ <<"x", mbi.number>> \in Argument
      /\ <<"0x", mbi.number>> \in Argument
      /\ <<"x", mbi.mmap_addr>> \in Argument /\ <<"x", mbi.mmap_length>> \in Argument
      /\ Multiboot!Text("cmdline") \in Argument /\ Multiboot!Text("invalid") \in Argument
      /\ Multiboot!Text("both") \in Argument /\ Multiboot!Text("Halted.") \in Argument
  BY <1>2, Given DEF Token
<1>4. /\ << <<"x", mbi.number>> >> \in Seq(Argument)
      /\ << <<"u", mbi.number>>, <<"u", mbi.number>> >> \in Seq(Argument)
      /\ << <<"u", mbi.number>>, <<"x", mbi.number>> >> \in Seq(Argument)
      /\ << <<"0x", mbi.number>>, <<"x", mbi.number>> >> \in Seq(Argument)
      /\ << <<"x", mbi.mmap_addr>>, <<"x", mbi.mmap_length>> >> \in Seq(Argument)
      /\ <<Multiboot!Text("cmdline")>> \in Seq(Argument)
      /\ <<Multiboot!Text("invalid")>> \in Seq(Argument)
      /\ <<Multiboot!Text("both")>> \in Seq(Argument)
      /\ <<Multiboot!Text("Halted.")>> \in Seq(Argument)
  BY <1>3
<1>5. /\ Multiboot!Line(<< <<"x", mbi.number>> >>) \in Seq(Argument)
      /\ Multiboot!Line(<< <<"u", mbi.number>>, <<"u", mbi.number>> >>) \in Seq(Argument)
      /\ Multiboot!Line(<< <<"u", mbi.number>>, <<"x", mbi.number>> >>) \in Seq(Argument)
      /\ Multiboot!Line(<< <<"0x", mbi.number>>, <<"x", mbi.number>> >>) \in Seq(Argument)
      /\ Multiboot!Line(<< <<"x", mbi.mmap_addr>>, <<"x", mbi.mmap_length>> >>) \in Seq(Argument)
      /\ Multiboot!Line(<<Multiboot!Text("cmdline")>>) \in Seq(Argument)
      /\ Multiboot!Line(<<Multiboot!Text("invalid")>>) \in Seq(Argument)
      /\ Multiboot!Line(<<Multiboot!Text("both")>>) \in Seq(Argument)
  BY <1>4, Given
<1>6. ASSUME UNCHANGED <<pending_, printed>> PROVE \E g : Gives(g)
  BY <1>1, <1>6, PutNothing
<1>7. ASSUME NEW next, Multiboot!Pass(next) PROVE \E g : Gives(g)
  BY <1>6, <1>7 DEF Multiboot!Pass
<1>8. CASE Multiboot!CheckMagic
  BY <1>5, <1>8, Put DEF Multiboot!CheckMagic
<1>9. CASE Multiboot!PrintNumbers
  <2> DEFINE a == IF 0 \in mbi.flags
                    THEN Multiboot!Line(<< <<"u", mbi.number>>, <<"u", mbi.number>> >>)
                    ELSE <<>>
             b == IF 1 \in mbi.flags THEN Multiboot!Line(<< <<"x", mbi.number>> >>) ELSE <<>>
             c == IF 2 \in mbi.flags THEN Multiboot!Line(<<Multiboot!Text("cmdline")>>)
                                     ELSE <<>>
  <2>1. Multiboot!printf(a \o b \o c)
    BY <1>9 DEF Multiboot!PrintNumbers
  <2>2. a \in Seq(Argument) /\ b \in Seq(Argument) /\ c \in Seq(Argument)
    BY <1>5, EmptySeq
  <2> HIDE DEF a, b, c
  <2>3. a \o b \o c \in Seq(Argument)
    BY <2>2, Joined
  <2> QED
    BY <2>1, <2>3, Put
<1>10. CASE Multiboot!CountModules
  <2>1. CASE 3 \in mbi.flags
    <3> DEFINE g == << <<"d", Len(mbi.mods)>>, <<"x", mbi.number>> >>
    <3>1. Multiboot!printf(Multiboot!Line(g))
      BY <1>10, <2>1 DEF Multiboot!CountModules
    <3>2. PICK n : n = Len(mbi.mods)
      OBVIOUS
    <3>3. n \in Multiboot!Long /\ 2 * n < WordSize
      <4>1. n \in Nat
        BY <3>2, PartTypes
      <4>2. 2 * n < WordSize
        BY <3>2 DEF Multiboot!WellMade
      <4> QED
        BY <4>1, <4>2 DEF Multiboot!Long
    <3>4. <<"d", n>> \in Argument
      BY <3>3, Given
    <3>5. g \in Seq(Argument)
      BY <1>3, <3>2, <3>4
    <3> QED
      BY <3>1, <3>5, Put, Given
  <2>2. CASE ~(3 \in mbi.flags)
    BY <1>7, <1>10, <2>2 DEF Multiboot!CountModules
  <2> QED
    BY <2>1, <2>2
<1>11. CASE Multiboot!PrintModule
  <2>1. at = "module" /\ i_ \in 0 .. Len(mbi.mods)
    BY <1>11 DEF ReportInv, ModulesInv, Multiboot!PrintModule
  <2>2. CASE i_ < Len(mbi.mods)
    <3>1. Len(mbi.mods) \in Nat
      BY PartTypes
    <3>2. i_ \in Nat
      BY <2>1, <3>1
    <3>3. Multiboot!Line(Multiboot!ModuleLine(mbi.mods[i_ + 1])) \in Seq(Argument)
      BY <2>2, <3>2, ModuleMore
    <3>4. Multiboot!printf(Multiboot!Line(Multiboot!ModuleLine(mbi.mods[i_ + 1])))
      BY <1>11, <2>2 DEF Multiboot!PrintModule, Multiboot!ModuleLine
    <3> QED
      BY <3>3, <3>4, Put
  <2>3. CASE ~(i_ < Len(mbi.mods))
    BY <1>7, <1>11, <2>3 DEF Multiboot!PrintModule
  <2> QED
    BY <2>2, <2>3
<1>12. CASE Multiboot!PrintSymbols
  BY <1>5, <1>7, <1>12, Put DEF Multiboot!PrintSymbols
<1>13. CASE Multiboot!StartMap
  BY <1>5, <1>7, <1>13, Put DEF Multiboot!StartMap
<1>14. CASE Multiboot!PrintRegion
  <2>1. PICK L \in Nat : L = Len(mbi.regions)
    BY PartTypes
  <2>2. PICK n \in 0 .. L : mmap = Begin(n)
    BY <1>14, <2>1 DEF ReportInv, RegionsInv, Multiboot!PrintRegion
  <2>3. mmap < Multiboot!MapEnd <=> n < L
    BY <2>1, <2>2, MapWalk
  <2>4. CASE n < L
    <3>1. n \in Nat /\ n < Len(mbi.regions)
      BY <2>1, <2>4
    <3>2. Multiboot!Line(Multiboot!RegionLine(mmap)) \in Seq(Argument)
      BY <2>2, <3>1, RegionMore
    <3>3. Multiboot!printf(Multiboot!Line(Multiboot!RegionLine(mmap)))
      BY <1>14, <2>3, <2>4 DEF Multiboot!PrintRegion, Multiboot!RegionLine
    <3> QED
      BY <3>2, <3>3, Put
  <2>5. CASE ~(n < L)
    BY <1>7, <1>14, <2>3, <2>5 DEF Multiboot!PrintRegion
  <2> QED
    BY <2>4, <2>5
<1>15. CASE Multiboot!Halt
  BY <1>4, <1>15, Put DEF Multiboot!Halt
<1> QED
  BY <1>8, <1>9, <1>10, <1>11, <1>12, <1>13, <1>14, <1>15

-----------------------------------------------------------------------------
(* Of the text, all but what is pending is on the screen.                  *)
CursorAfter(d) ==
  /\ \E b : IsBegin(d, Len(d) + 1, b)
  /\ Multiboot!Place(d, Len(d) + 1) = <<xpos, ypos>>
Here(d, c) ==
  {k \in 1 .. Len(d) : d[k] # Multiboot!LineFeed /\ Multiboot!Place(d, k) = c}
Shows(d) ==
  /\ video \in [Multiboot!Cell -> Char \cup {"nothing"}]
  /\ \A c \in Multiboot!Cell :
       video[c] = IF Here(d, c) = {} THEN "nothing" ELSE d[Multiboot!Max(Here(d, c))]
ShownInv ==
  /\ pending_ \in Seq(Char)
  /\ \E d \in Seq(Char) :
       FlattenSeq(Conv(printed)) = d \o pending_ /\ CursorAfter(d) /\ Shows(d)

LEMMA ShownInit == ScreenMade /\ Multiboot!MultibootInit => ShownInv
<1> SUFFICES ASSUME ScreenMade, Multiboot!MultibootInit PROVE ShownInv
  OBVIOUS
<1>1. pending_ = <<>> /\ printed = <<>> /\ xpos = 0 /\ ypos = 0
      /\ video = [c \in Multiboot!Cell |-> "nothing"]
  BY DEF Multiboot!MultibootInit
<1>2. <<>> \in Seq(Char) /\ Len(<<>>) = 0 /\ <<>> \o <<>> = <<>>
  OBVIOUS
<1>3. FlattenSeq(Conv(printed)) = <<>>
  BY <1>1 DEF Conv, FlattenSeq
<1>4. PICK e : e = <<>>
  OBVIOUS
<1>5. LineStarts(e, 1) = {0}
  <2>1. 0 .. 1 - 1 = {0}
    OBVIOUS
  <2> QED
    BY <2>1 DEF LineStarts
<1>6. IsBegin(e, 1, 0)
  BY <1>5 DEF IsBegin
<1>7. Multiboot!LineBegin(e, 1) = 0
  BY <1>6, BeginIs
<1>8. Multiboot!RowsAbove(e, 1) = {}
  BY DEF Multiboot!RowsAbove
<1>9. Multiboot!Cardinality(Multiboot!RowsAbove(e, 1)) = 0
  BY <1>8, FS_EmptySet, SameCardinality
<1>10. 0 % COLUMNS = 0 /\ 0 % LINES = 0
  <2>1. 0 * COLUMNS + 0 = 0 /\ 0 * LINES + 0 = 0 /\ 0 \in Int
        /\ 0 \in 0 .. COLUMNS - 1 /\ 0 \in 0 .. LINES - 1
    BY DEF ScreenMade
  <2>2. (0 * COLUMNS + 0) % COLUMNS = 0
    BY <2>1, DivMod DEF ScreenMade
  <2>3. (0 * LINES + 0) % LINES = 0
    BY <2>1, DivMod DEF ScreenMade
  <2> QED
    BY <2>1, <2>2, <2>3
<1>11. Multiboot!Place(e, 1) = <<0, 0>>
  <2>1. 1 - 1 - 0 = 0
    OBVIOUS
  <2>2. Multiboot!Column(e, 1) = 0
    BY <1>7, <1>10, <2>1 DEF Multiboot!Column
  <2> QED
    BY <1>9, <1>10, <2>2 DEF Multiboot!Place
<1>12. CursorAfter(e)
  <2>1. Len(e) + 1 = 1
    BY <1>2, <1>4
  <2> QED
    BY <1>1, <1>6, <1>11, <2>1 DEF CursorAfter
<1>13. Shows(e)
  <2>1. \A c \in Multiboot!Cell : Here(e, c) = {}
    BY <1>2, <1>4 DEF Here
  <2> QED
    BY <1>1, <2>1 DEF Shows
<1> QED
  BY <1>1, <1>2, <1>3, <1>4, <1>12, <1>13 DEF ShownInv

(* A set of numbers up to n has a greatest one.                            *)
LEMMA GreatestOf ==
  ASSUME NEW n \in Nat, NEW H, H # {}, \A k \in H : k \in 1 .. n
  PROVE  (CHOOSE k \in H : \A j \in H : k >= j) \in H
<1> DEFINE S == {m \in Nat : \A T : T # {} /\ (\A k \in T : k \in 1 .. m) =>
                              \E k \in T : \A j \in T : k >= j}
<1>1. 0 \in S
  <2>1. \A k \in Nat : ~(k \in 1 .. 0)
    OBVIOUS
  <2> QED
    BY <2>1
<1>2. ASSUME NEW m \in Nat, m \in S PROVE m + 1 \in S
  <2>1. SUFFICES ASSUME NEW T, T # {}, \A k \in T : k \in 1 .. m + 1
                 PROVE  \E k \in T : \A j \in T : k >= j
    OBVIOUS
  <2>2. CASE m + 1 \in T
    BY <2>1, <2>2
  <2>3. CASE m + 1 \notin T
    <3>1. \A k \in T : k \in 1 .. m
      BY <2>1, <2>3
    <3> QED
      BY <1>2, <2>1, <3>1
  <2> QED
    BY <2>2, <2>3
<1>3. n \in S
  <2> HIDE DEF S
  <2> QED
    BY <1>1, <1>2, SetInduction
<1>4. \E k \in H : \A j \in H : k >= j
  BY <1>3
<1> QED
  BY <1>4

(* The first of what is pending goes from behind to the front.             *)
LEMMA OneOver ==
  ASSUME NEW d \in Seq(Char), NEW s \in Seq(Char), s # <<>>
  PROVE  /\ Head(s) \in Char /\ Tail(s) \in Seq(Char)
         /\ Append(d, Head(s)) \in Seq(Char)
         /\ d \o s = Append(d, Head(s)) \o Tail(s)
<1> DEFINE x == Head(s)  t == Tail(s)  e == Append(d, x)
<1>1. /\ x \in Char /\ x = s[1] /\ t \in Seq(Char) /\ Len(s) \in Nat /\ Len(t) = Len(s) - 1
      /\ \A j \in 1 .. Len(t) : t[j] = s[j + 1]
  BY LenProperties, HeadTailProperties
<1>2. /\ e \in Seq(Char) /\ Len(d) \in Nat /\ Len(e) = Len(d) + 1 /\ e[Len(d) + 1] = x
      /\ \A j \in 1 .. Len(d) : e[j] = d[j]
  <2>1. x \in Char
    BY <1>1
  <2> HIDE DEF x
  <2> QED
    BY <2>1, LenProperties, AppendProperties
<1> HIDE DEF x, t, e
<1> DEFINE u == d \o s  v == e \o t  m == Len(d)  n == Len(t)
<1>a. u \in Seq(Char) /\ Len(u) = Len(d) + Len(s)
      /\ \A j \in 1 .. Len(d) + Len(s) : u[j] = IF j <= Len(d) THEN d[j] ELSE s[j - Len(d)]
  BY Joined
<1>b. v \in Seq(Char) /\ Len(v) = Len(e) + Len(t)
      /\ \A j \in 1 .. Len(e) + Len(t) : v[j] = IF j <= Len(e) THEN e[j] ELSE t[j - Len(e)]
  BY <1>1, <1>2, Joined
<1>c. n \in Nat /\ m \in Nat /\ \A j \in 1 .. n : t[j] = s[j + 1]
  BY <1>1, LenProperties
<1>d. Len(e) = m + 1 /\ e[m + 1] = x /\ \A j \in 1 .. m : e[j] = d[j]
  BY <1>2
<1> HIDE DEF u, v
<1>3. Len(s) = n + 1
  <2>1. n = Len(s) - 1 /\ Len(s) \in Nat
    BY <1>1
  <2> HIDE DEF n
  <2> QED
    BY <1>c, <2>1
<1>4. /\ u \in Seq(Char) /\ Len(u) = m + (n + 1)
      /\ \A j \in 1 .. m + (n + 1) : u[j] = IF j <= m THEN d[j] ELSE s[j - m]
  <2>1. u \in Seq(Char) /\ Len(u) = m + Len(s)
        /\ \A j \in 1 .. m + Len(s) : u[j] = IF j <= m THEN d[j] ELSE s[j - m]
    BY <1>a
  <2> HIDE DEF m, n
  <2> QED
    BY <1>3, <2>1
<1>5. /\ v \in Seq(Char) /\ Len(v) = (m + 1) + n
      /\ \A j \in 1 .. (m + 1) + n : v[j] = IF j <= m + 1 THEN e[j] ELSE t[j - (m + 1)]
  <2>1. v \in Seq(Char) /\ Len(v) = Len(e) + n
        /\ \A j \in 1 .. Len(e) + n : v[j] = IF j <= Len(e) THEN e[j] ELSE t[j - Len(e)]
    BY <1>b
  <2> HIDE DEF m, n
  <2> QED
    BY <1>d, <2>1
<1> HIDE DEF m, n
<1>6. (m + 1) + n = m + (n + 1)
  BY <1>c
<1>7. ASSUME NEW j \in 1 .. m + (n + 1) PROVE u[j] = v[j]
  <2>1. CASE j \in 1 .. m
    <3>1. j \in 1 .. (m + 1) + n /\ j <= m /\ j <= m + 1
      BY <1>c, <2>1
    <3> QED
      BY <1>d, <1>4, <1>5, <2>1, <3>1
  <2>2. CASE j = m + 1
    <3>1. j - m = 1 /\ ~(j <= m) /\ j <= m + 1
      BY <1>c, <2>2
    <3> QED
      BY <1>1, <1>c, <1>d, <1>4, <1>5, <1>6, <2>2, <3>1
  <2>3. CASE ~(j <= m + 1)
    <3>1. PICK l : l = j - (m + 1)
      OBVIOUS
    <3>2. l \in 1 .. n /\ j - m = l + 1 /\ ~(j <= m)
      BY <1>c, <2>3, <3>1
    <3> QED
      BY <1>c, <1>4, <1>5, <1>6, <2>3, <3>1, <3>2
  <2> QED
    BY <1>c, <2>1, <2>2, <2>3
<1>8. u = v
  BY <1>4, <1>5, <1>6, <1>7, SeqEqual
<1> QED
  BY <1>1, <1>2, <1>8 DEF x, t, e, u, v

LEMMA CharPut ==
  ASSUME ScreenMade, ShownInv, Multiboot!putchar
  PROVE  ShownInv'
<1>1. PICK d \in Seq(Char) :
        FlattenSeq(Conv(printed)) = d \o pending_ /\ CursorAfter(d) /\ Shows(d)
  BY DEF ShownInv
<1>0. PICK x : x = Head(pending_)
  OBVIOUS
<1> DEFINE e == Append(d, x)  n == Len(d)
<1>2. pending_ \in Seq(Char) /\ pending_ # <<>> /\ pending_' = Tail(pending_) /\ printed' = printed
  BY DEF ShownInv, Multiboot!putchar
<1>3. /\ x \in Char /\ Tail(pending_) \in Seq(Char) /\ e \in Seq(Char)
      /\ d \o pending_ = e \o Tail(pending_)
  BY <1>0, <1>1, <1>2, OneOver
<1>4. \/ x = Multiboot!LineFeed /\ Multiboot!newline /\ video' = video
      \/ /\ x # Multiboot!LineFeed
         /\ video' = [video EXCEPT ![<<xpos, ypos>>] = x]
         /\ Multiboot!Advance
  BY <1>0 DEF Multiboot!putchar
<1>5. n \in Nat /\ Len(e) = n + 1 /\ e[n + 1] = x /\ \A j \in 1 .. n : e[j] = d[j]
  BY <1>1, <1>3, LenProperties, AppendProperties
<1>6. PICK b : IsBegin(d, n + 1, b)
  BY <1>1 DEF CursorAfter
<1>7. Multiboot!Place(d, n + 1) = <<xpos, ypos>>
  BY <1>1 DEF CursorAfter
<1>8. /\ \E a : IsBegin(e, n + 2, a)
      /\ xpos \in 0 .. COLUMNS - 1 /\ ypos \in 0 .. LINES - 1
      /\ Multiboot!Place(e, n + 2)
           = IF x = Multiboot!LineFeed \/ xpos = COLUMNS - 1 THEN <<0, (ypos + 1) % LINES>>
                                                             ELSE <<xpos + 1, ypos>>
  BY <1>1, <1>3, <1>6, <1>7, NextPlace
<1>9. \A k \in 1 .. n + 1 : Multiboot!Place(e, k) = Multiboot!Place(d, k)
  BY <1>1, <1>3, PlacesStay
<1> HIDE DEF e, n
<1>10. Multiboot!Place(e, n + 2) = <<xpos', ypos'>>
  <2>1. COLUMNS \in Nat \ {0}
    BY DEF ScreenMade
  <2>2. xpos + 1 >= COLUMNS <=> xpos = COLUMNS - 1
    BY <1>8, <2>1
  <2> QED
    BY <1>4, <1>8, <2>2 DEF Multiboot!newline, Multiboot!Advance
<1>11. Len(e) + 1 = n + 2
  BY <1>5
<1>12. CursorAfter(e)'
  <2>1. \E a : IsBegin(e, Len(e) + 1, a)
    BY <1>8, <1>11
  <2>2. Multiboot!Place(e, Len(e) + 1) = <<xpos', ypos'>>
    BY <1>10, <1>11
  <2> QED
    BY <2>1, <2>2 DEF CursorAfter
<1>13. Shows(e)'
  <2>1. video \in [Multiboot!Cell -> Char \cup {"nothing"}]
    BY <1>1 DEF Shows
  <2>2. <<xpos, ypos>> \in Multiboot!Cell
    BY <1>8 DEF Multiboot!Cell
  <2>3. video' \in [Multiboot!Cell -> Char \cup {"nothing"}]
    BY <1>3, <1>4, <2>1, <2>2
  <2>4. 1 .. n + 1 = (1 .. n) \cup {n + 1}
    BY <1>5
  <2>5. ASSUME NEW c \in Multiboot!Cell
        PROVE  Here(e, c) = IF x # Multiboot!LineFeed /\ c = <<xpos, ypos>>
                              THEN Here(d, c) \cup {n + 1} ELSE Here(d, c)
    <3>1. Here(d, c) = {k \in 1 .. n : d[k] # Multiboot!LineFeed /\ Multiboot!Place(d, k) = c}
      BY DEF Here, n
    <3>2. Here(e, c) = {k \in 1 .. n + 1 : e[k] # Multiboot!LineFeed /\ Multiboot!Place(e, k) = c}
      BY <1>5 DEF Here
    <3>3. \A k \in 1 .. n : e[k] = d[k] /\ Multiboot!Place(e, k) = Multiboot!Place(d, k)
      BY <1>5, <1>9, <2>4
    <3>4. e[n + 1] = x /\ Multiboot!Place(e, n + 1) = <<xpos, ypos>>
      BY <1>5, <1>7, <1>9, <2>4
    <3> QED
      BY <2>4, <3>1, <3>2, <3>3, <3>4
  <2>6. ASSUME NEW c \in Multiboot!Cell
        PROVE  video'[c] = IF Here(e, c) = {} THEN "nothing" ELSE e[Multiboot!Max(Here(e, c))]
    <3>1. CASE x # Multiboot!LineFeed /\ c = <<xpos, ypos>>
      <4>1. Here(e, c) = Here(d, c) \cup {n + 1}
        BY <2>5, <3>1
      <4>2. \A k \in Here(d, c) : k \in 1 .. n
        BY DEF Here, n
      <4>3. Multiboot!Max(Here(e, c)) = n + 1
        <5> DEFINE H == Here(e, c)  m == CHOOSE k \in H : \A j \in H : k >= j
        <5>1. n + 1 \in H /\ \A j \in H : j \in Nat /\ n + 1 >= j
          BY <1>5, <4>1, <4>2
        <5> HIDE DEF H
        <5>2. m \in H /\ \A j \in H : m >= j
          BY <5>1
        <5> HIDE DEF m
        <5>3. m = n + 1
          BY <1>5, <5>1, <5>2
        <5>4. Multiboot!Max(H) = m
          BY DEF Multiboot!Max, m
        <5> QED
          BY <5>3, <5>4 DEF H
      <4>4. video'[c] = x
        BY <1>4, <2>1, <2>2, <3>1
      <4> QED
        BY <1>5, <4>1, <4>3, <4>4
    <3>2. CASE ~(x # Multiboot!LineFeed /\ c = <<xpos, ypos>>)
      <4>1. Here(e, c) = Here(d, c)
        BY <2>5, <3>2
      <4>2. video'[c] = video[c]
        BY <1>4, <2>1, <2>2, <3>2
      <4>3. video[c] = IF Here(d, c) = {} THEN "nothing" ELSE d[Multiboot!Max(Here(d, c))]
        BY <1>1 DEF Shows
      <4>4. CASE Here(d, c) = {}
        BY <4>1, <4>2, <4>3, <4>4
      <4>5. CASE Here(d, c) # {}
        <5> DEFINE H == Here(d, c)
        <5>1. H # {} /\ \A k \in H : k \in 1 .. n
          BY <4>5 DEF Here, n
        <5> HIDE DEF H
        <5>2. Multiboot!Max(H) \in H
          BY <1>5, <5>1, GreatestOf DEF Multiboot!Max
        <5>3. Multiboot!Max(H) \in 1 .. n
          BY <5>1, <5>2
        <5> QED
          BY <1>5, <4>1, <4>2, <4>3, <5>1, <5>3 DEF H
      <4> QED
        BY <4>4, <4>5
    <3> QED
      BY <3>1, <3>2
  <2> QED
    BY <2>3, <2>6 DEF Shows
<1>14. FlattenSeq(Conv(printed))' = e \o pending_'
  BY <1>1, <1>2, <1>3 DEF e
<1>15. pending_' \in Seq(Char) /\ e \in Seq(Char)
  BY <1>2, <1>3 DEF e
<1> QED
  BY <1>12, <1>13, <1>14, <1>15 DEF ShownInv

LEMMA ShownNext ==
  ASSUME Made, ScreenMade, ReportInv, ShownInv,
         [Multiboot!MultibootNext]_(Multiboot!multibootVars)
  PROVE  ShownInv'
<1>1. PICK d \in Seq(Char) :
        FlattenSeq(Conv(printed)) = d \o pending_ /\ CursorAfter(d) /\ Shows(d)
  BY DEF ShownInv
<1>2. ASSUME UNCHANGED <<xpos, ypos, video>> PROVE CursorAfter(d)' /\ Shows(d)'
  <2>1. CursorAfter(d)'
    BY <1>1, <1>2 DEF CursorAfter
  <2>2. Shows(d)'
    BY <1>1, <1>2 DEF Shows
  <2> QED
    BY <2>1, <2>2
<1>3. CASE Multiboot!cmain
  <2>1. /\ mbi' = mbi /\ pending_ = <<>> /\ UNCHANGED <<xpos, ypos, video>>
    BY <1>3 DEF Multiboot!cmain, Multiboot!screen
  <2>2. Multiboot!WellMade(mbi) /\ WordSize \in Nat /\ printed \in Seq(Argument)
    BY DEF Made, ReportInv, GivenInv
  <2>3. PICK g : Gives(g)
    BY <1>3, <2>1, <2>2, CmainGives DEF Multiboot!cmain
  <2>4. FlattenSeq(Conv(printed')) = FlattenSeq(Conv(printed)) \o pending_'
        /\ pending_' \in Seq(Char)
    BY <2>2, <2>3, OutMore DEF Gives
  <2>5. FlattenSeq(Conv(printed)) = d
    BY <1>1, <2>1, NothingJoined
  <2>6. FlattenSeq(Conv(printed))' = d \o pending_'
    BY <2>4, <2>5
  <2> QED
    BY <1>2, <2>1, <2>4, <2>6 DEF ShownInv
<1>4. CASE Multiboot!putchar
  BY <1>4, CharPut
<1>5. CASE UNCHANGED Multiboot!multibootVars
  <2>1. UNCHANGED <<xpos, ypos, video, pending_, printed>>
    BY <1>5 DEF Multiboot!multibootVars, Multiboot!screen
  <2>2. FlattenSeq(Conv(printed))' = d \o pending_' /\ pending_' \in Seq(Char)
    BY <1>1, <2>1 DEF ShownInv
  <2> QED
    BY <1>2, <2>1, <2>2 DEF ShownInv
<1> QED
  BY <1>3, <1>4, <1>5 DEF Multiboot!MultibootNext

LEMMA ShowsIt == ShownInv => Multiboot!ShowsTheLastRound
<1> SUFFICES ASSUME ShownInv, pending_ = <<>> PROVE Multiboot!ShowsTheLastRound
  BY DEF Multiboot!ShowsTheLastRound
<1>1. PICK d \in Seq(Char) :
        FlattenSeq(Conv(printed)) = d \o pending_ /\ CursorAfter(d) /\ Shows(d)
  BY DEF ShownInv
<1>2. Multiboot!Out = d
  BY <1>1, NothingJoined, OutIs
<1>3. DOMAIN d = 1 .. Len(d)
  BY LenProperties
<1> DEFINE shown == {k \in DOMAIN d : d[k] # Multiboot!LineFeed}
           place == [k \in shown |-> Multiboot!Place(d, k)]
<1>4. \A c \in Multiboot!Cell : {k \in shown : place[k] = c} = Here(d, c)
  BY <1>3 DEF Here
<1> HIDE DEF shown, place
<1>5. \A c \in Multiboot!Cell :
        video[c] = IF {k \in shown : place[k] = c} = {} THEN "nothing"
                   ELSE d[Multiboot!Max({k \in shown : place[k] = c})]
  BY <1>1, <1>4 DEF Shows
<1> QED
  BY <1>2, <1>5 DEF Multiboot!ShowsTheLastRound, shown, place

(* MyToyOS1's screen shows, of all that printf has been given so far, in   *)
(* each cell the last character whose place it is: rows are filled to the  *)
(* last column, and after the last line comes the first (putchar, of       *)
(* kernel.c).                                                              *)
THEOREM LastRoundIsShown == Multiboot!MultibootSpec => []ShowsTheLastRound
<1>1. Multiboot!MultibootInit => ReportInv /\ ShownInv
  BY MadeHolds, ReportInit, ShownInit
<1>2. /\ ReportInv /\ ShownInv
      /\ [Multiboot!MultibootNext]_(Multiboot!multibootVars)
      => ReportInv' /\ ShownInv'
  BY MadeHolds, ReportNext, ShownNext
<1>3. ReportInv /\ ShownInv => ShowsTheLastRound
  BY ShowsIt DEF ShowsTheLastRound
<1> QED
  BY <1>1, <1>2, <1>3, PTL DEF Multiboot!MultibootSpec

=============================================================================
