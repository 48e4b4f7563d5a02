-------------------------- MODULE MultibootConsole --------------------------
(***************************************************************************)
(* The sample kernel of MyToyOS1: cmain prints the multiboot information   *)
(* with a printf and a screen of its own.  cmain takes a step from one     *)
(* call of printf to the next; printf puts a character at a time.  Wording *)
(* is left out, a text is one character.  An argument of printf is its     *)
(* conversion with its value, <<"x", 18>>.                                 *)
(***************************************************************************)
EXTENDS Integers, FiniteSets, SequencesExt

CONSTANTS
  COLUMNS, LINES,  (* 80 and 24                                            *)
  WordSize,        (* values of a long, 2^32                               *)
  Infos            (* multiboot informations boot loaders pass             *)

VARIABLES
  mbi,         (* the information, and whether the loader is compliant     *)
  at,          (* what cmain looks at next                                 *)
  i,           (* of the loop over the modules                             *)
  mmap,        (* of the loop over the memory map                          *)
  pending,     (* characters printf has not put yet                        *)
  xpos, ypos,
  video,
  printed      (* history: arguments and texts given to printf             *)

cmainVars == <<mbi, at, i, mmap>>
screen == <<xpos, ypos, video>>

(* cls, at the beginning of cmain.                                         *)
Cell == (0 .. COLUMNS - 1) \X (0 .. LINES - 1)

MultibootInit ==
  /\ mbi \in Infos
  /\ at = "magic"
  /\ i = 0 /\ mmap = 0
  /\ xpos = 0 /\ ypos = 0 /\ video = [c \in Cell |-> "nothing"]
  /\ pending = <<>> /\ printed = <<>>

-----------------------------------------------------------------------------
LineFeed == "NL"

newline == xpos' = 0 /\ ypos' = (ypos + 1) % LINES

(* After a character in the last column comes the next line.               *)
AdvanceLate ==
  IF xpos + 1 > COLUMNS THEN newline ELSE xpos' = (xpos + 1) % COLUMNS /\ UNCHANGED ypos
Advance ==
  IF xpos + 1 >= COLUMNS THEN newline ELSE xpos' = xpos + 1 /\ UNCHANGED ypos

putchar ==
  /\ pending # <<>>
  /\ pending' = Tail(pending)
  /\ \/ Head(pending) = LineFeed /\ newline /\ UNCHANGED video
     \/ /\ Head(pending) # LineFeed
        /\ video' = [video EXCEPT ![<<xpos, ypos>>] = Head(pending)]
        /\ Advance
  /\ UNCHANGED <<cmainVars, printed>>

Digit == <<"0", "1", "2", "3", "4", "5", "6", "7", "8", "9", "a", "b", "c", "d", "e", "f">>

Digits(ud, divisor) ==
  LET digits[n \in Nat] ==
        Append(IF n < divisor THEN <<>> ELSE digits[n \div divisor],
               Digit[(n % divisor) + 1])
  IN  digits[ud]

(* d is an int, of which %u and %x print the value as an unsigned long.    *)
AsInt(value) == IF 2 * (value % WordSize) < WordSize THEN value % WordSize
                                         ELSE (value % WordSize) - WordSize
itoaSigned(base, d) ==
  IF d < 0
    THEN <<"-">> \o Digits(-d, IF base = "x" THEN 16 ELSE 10)
    ELSE Digits(d, IF base = "x" THEN 16 ELSE 10)
itoa(base, d) ==
  IF base = "d" /\ d < 0
    THEN <<"-">> \o Digits(-d, 10)
    ELSE Digits(d % WordSize, IF base = "x" THEN 16 ELSE 10)

(* What printf makes of an argument.  %0x is no conversion it knows: the   *)
(* argument is put as a character, and the x after it.                     *)
Converted(arg) ==
  CASE arg[1] \in {"d", "u", "x"} -> itoa(arg[1], AsInt(arg[2]))
    [] arg[1] = "0x" -> <<"glyph", "x">>
    [] OTHER -> <<arg[2]>>

Text(token) == <<"text", token>>
Line(args) == args \o <<Text(LineFeed)>>

printf(args) ==
  /\ pending' = FlattenSeq([k \in DOMAIN args |-> Converted(args[k])])
  /\ printed' = printed \o args

-----------------------------------------------------------------------------
Pass(next) == at' = next /\ UNCHANGED <<pending, printed>>

(* "Am I booted by a Multiboot-compliant boot loader?"                     *)
CheckMagic ==
  /\ at = "magic"
  /\ IF mbi.compliant
       THEN printf(Line(<<<<"x", mbi.number>>>>)) /\ at' = "numbers"
       ELSE printf(Line(<<Text("invalid")>>)) /\ at' = "return"
  /\ UNCHANGED <<i, mmap>>

(* mem_*, boot_device and cmdline: a line each if its flag is set.         *)
PrintNumbers ==
  /\ at = "numbers"
  /\ printf((IF 0 \in mbi.flags THEN Line(<<<<"u", mbi.number>>, <<"u", mbi.number>>>>) ELSE <<>>)
         \o (IF 1 \in mbi.flags THEN Line(<<<<"x", mbi.number>>>>) ELSE <<>>)
         \o (IF 2 \in mbi.flags THEN Line(<<Text("cmdline")>>) ELSE <<>>))
  /\ at' = "mods"
  /\ UNCHANGED <<i, mmap>>

CountModules ==
  /\ at = "mods"
  /\ IF 3 \in mbi.flags
       THEN /\ printf(Line(<<<<"d", Len(mbi.mods)>>, <<"x", mbi.number>>>>))
            /\ i' = 0
            /\ at' = "module"
       ELSE Pass("symbols") /\ UNCHANGED i
  /\ UNCHANGED mmap

PrintModule ==
  /\ at = "module"
  /\ IF i < Len(mbi.mods)
       THEN /\ printf(Line(<<<<"x", mbi.mods[i + 1]>>, Text("string")>>))
            /\ i' = i + 1
            /\ at' = "module"
       ELSE Pass("symbols") /\ UNCHANGED i
  /\ UNCHANGED mmap

(* "Bits 4 and 5 are mutually exclusive!"                                  *)
PrintSymbols ==
  /\ at = "symbols"
  /\ IF {4, 5} \subseteq mbi.flags
       THEN printf(Line(<<Text("both")>>)) /\ at' = "return"
       ELSE IF 4 \in mbi.flags
         THEN printf(Line(<<<<"0x", mbi.number>>, <<"x", mbi.number>>>>)) /\ at' = "mmap"
         ELSE IF 5 \in mbi.flags
           THEN printf(Line(<<<<"u", mbi.number>>, <<"x", mbi.number>>>>)) /\ at' = "mmap"
           ELSE Pass("mmap")
  /\ UNCHANGED <<i, mmap>>

StartMap ==
  /\ at = "mmap"
  /\ IF 6 \in mbi.flags
       THEN /\ printf(Line(<<<<"x", mbi.mmap_addr>>, <<"x", mbi.mmap_length>>>>))
            /\ mmap' = mbi.mmap_addr
            /\ at' = "region"
       ELSE Pass("return") /\ UNCHANGED mmap
  /\ UNCHANGED i

(* The entry at an address; elsewhere in memory there is anything.         *)
Region(address) ==
  IF address \in DOMAIN mbi.memory THEN mbi.memory[address]
  ELSE [size |-> 1, base_addr |-> <<0, 0>>]

(* Addresses and their sums are unsigned longs.                            *)
MapEnd == (mbi.mmap_addr + mbi.mmap_length) % WordSize

NextEntryBySize(address) == (address + Region(address).size) % WordSize
NextEntry(address) == (address + Region(address).size + 4) % WordSize

(* base_addr is its two words, high and low; so would length be.           *)
PrintRegion ==
  /\ at = "region"
  /\ IF mmap < MapEnd
       THEN /\ LET r == Region(mmap)
               IN  printf(Line(<<<<"x", r.size>>, <<"x", r.base_addr[1]>>,
                                 <<"x", r.base_addr[2]>>>>))
            /\ mmap' = NextEntry(mmap)
            /\ at' = "region"
       ELSE Pass("return") /\ UNCHANGED mmap
  /\ UNCHANGED i

(* boot.S: cmain has returned.                                             *)
Halt ==
  /\ at = "return"
  /\ printf(<<Text("Halted.")>>)
  /\ at' = "halted"
  /\ UNCHANGED <<i, mmap>>

cmain ==
  /\ pending = <<>>
  /\ \/ CheckMagic \/ PrintNumbers \/ CountModules \/ PrintModule
     \/ PrintSymbols \/ StartMap \/ PrintRegion \/ Halt
  /\ UNCHANGED <<mbi, screen>>

MultibootNext == cmain \/ putchar

multibootVars == <<cmainVars, screen, pending, printed>>
MultibootSpec == MultibootInit /\ [][MultibootNext]_multibootVars

-----------------------------------------------------------------------------
(* What boot loaders pass: every number is a long, and the regions of the  *)
(* memory map come one after the other, each behind its size, up to its    *)
(* end, which is an address too: a map in the last bytes of the address    *)
(* space, where no loader has memory, would be reported as empty.          *)
Long == 0 .. WordSize - 1

WellMade(info) ==
  /\ info.number \in Long
  /\ info.mods \in Seq(Long) /\ 2 * Len(info.mods) < WordSize
  /\ info.mmap_addr \in Long /\ info.mmap_length \in Long
  /\ info.mmap_addr + info.mmap_length \in Long
  /\ DOMAIN info.memory \subseteq Nat /\ info.regions \in Seq(DOMAIN info.memory)
  /\ \A a \in DOMAIN info.memory :
       info.memory[a] \in [size : Long, base_addr : Long \X Long]
  /\ LET end == info.mmap_addr + info.mmap_length
         begins == Append(info.regions, end)
     IN  /\ begins[1] = info.mmap_addr
         /\ \A n \in DOMAIN info.regions :
              /\ begins[n] < end
              /\ begins[n + 1] = begins[n] + info.memory[begins[n]].size + 4

(* When the machine halts, every module and every region of the memory map *)
(* has been reported, once and in the loader's order: the walk from entry  *)
(* to entry, whose sizes do not count the size field, neither skips one    *)
(* nor leaves the map.                                                     *)
Lines(seq, line(_)) == FlattenSeq([k \in DOMAIN seq |-> Line(line(seq[k]))])
ModuleLine(m) == <<<<"x", m>>, Text("string")>>
RegionLine(address) ==
  LET r == Region(address)
  IN  <<<<"x", r.size>>, <<"x", r.base_addr[1]>>, <<"x", r.base_addr[2]>>>>
Reported(lines) == \E k \in 0 .. Len(printed) : IsPrefix(lines, SubSeq(printed, k + 1, Len(printed)))

ReportWhole ==
  at = "halted" /\ mbi.compliant =>
    /\ 3 \in mbi.flags => Reported(Lines(mbi.mods, ModuleLine))
    /\ 6 \in mbi.flags /\ ~({4, 5} \subseteq mbi.flags) =>
         IsSuffix(Append(Lines(mbi.regions, RegionLine), Text("Halted.")), printed)

(* "just like the libc function printf" (lines 238 and 239), %0x apart:    *)
(* what is printed of a number reads back as the number, in its base,      *)
(* signed or not, and without zeros in front.                              *)
Worth(digit) == SelectInSeq(Digit, LAMBDA d : d = digit) - 1
ValueOf(digits, divisor) ==
  LET value[k \in 0 .. Len(digits)] ==
        IF k = 0 THEN 0 ELSE value[k - 1] * divisor + Worth(digits[k])
  IN  value[Len(digits)]

NumbersReadBack ==
  \A k \in DOMAIN printed :
    LET number == printed[k][2]
        text == Converted(printed[k])
        divisor == IF printed[k][1] = "x" THEN 16 ELSE 10
    IN  printed[k][1] \in {"d", "u", "x"} =>
          /\ Head(text) # "0" \/ number = 0
          /\ IF Head(text) = "-"
               THEN printed[k][1] = "d" /\ number = -ValueOf(Tail(text), divisor)
               ELSE number = ValueOf(text, divisor)

(* The screen does not scroll: after the last line comes the first, and    *)
(* what stands there stays until it is written over.  A cell shows the     *)
(* last of the characters whose place it is: a line of the text begins in  *)
(* the first column, and a row of the screen ends with a line of the text  *)
(* or in the last column.                                                  *)
Out == FlattenSeq([k \in DOMAIN printed |-> Converted(printed[k])])

LineBegin(out, k) == Max({j \in 0 .. k - 1 : j = 0 \/ out[j] = LineFeed})
Column(out, k) == (k - 1 - LineBegin(out, k)) % COLUMNS
RowsAbove(out, k) == {j \in 1 .. k - 1 : out[j] = LineFeed \/ Column(out, j) = COLUMNS - 1}
Place(out, k) == <<Column(out, k), Cardinality(RowsAbove(out, k)) % LINES>>

ShowsTheLastRound ==
  pending = <<>> =>
  LET out == Out
      shown == {k \in DOMAIN out : out[k] # LineFeed}
      place == [k \in shown |-> Place(out, k)]
  IN  \A c \in Cell :
        LET here == {k \in shown : place[k] = c}
        IN  video[c] = IF here = {} THEN "nothing" ELSE out[Max(here)]
=============================================================================
