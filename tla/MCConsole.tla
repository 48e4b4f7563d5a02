------------------------------ MODULE MCConsole ------------------------------
(* The two kernels, of which the machine boots one.  For MyToyOS2, every   *)
(* call of up to MaxDirectives directives, some with a lone percent sign   *)
(* or an unused argument at the end (as tcpip.c, line 177, has one).  For  *)
(* MyToyOS1, informations with every combination of the flags that change  *)
(* its way, and numbers at the ends of their range.                        *)
EXTENDS Kernels

CONSTANT MaxDirectives

Directive(written_, args_, prints_) ==
  [format |-> written_, args |-> args_, prints |-> prints_, known |-> TRUE]

Unknown(written_) == [Directive(written_, <<>>, <<>>) EXCEPT !.known = FALSE]

MCDirectives ==
  { Directive(<<"a">>, <<>>, <<"a">>),
    Directive(<<"NL">>, <<>>, <<"NL">>),
    Directive(<<"%", "%">>, <<>>, <<"%">>),
    Directive(<<"%", "c">>, << <<"c">> >>, <<"c">>),
    Directive(<<"%", "s">>, << <<"%", "s">> >>, <<"%", "s">>),
    Directive(<<"%", "s">>, << <<>> >>, <<>>),
    Unknown(<<"%", "a">>) }

MCLast ==
  { Unknown(<<"%">>), Directive(<<"a">>, << <<"c">> >>, <<"a">>) }

MCCalls ==
  LET some == UNION {[1 .. n -> MCDirectives] : n \in 0 .. MaxDirectives}
  IN  some \cup {Append(c, d) : c \in some, d \in MCLast}

MCChars == {"a", "c", "s", "%", " "}

-----------------------------------------------------------------------------
(* Entries of 20 bytes, and one of 24, as newer loaders write them.        *)
Entry(size_, high, low) == [size |-> size_, base_addr |-> <<high, low>>]
MCMaps == { <<>>, <<Entry(20, 0, 0), Entry(24, 1, 160), Entry(20, 0, 4095)>> }

Information(compliant_, flags_, number_, mods_, map) ==
  LET address[n \in 1 .. Len(map) + 1] ==
        IF n = 1 THEN 48 ELSE address[n - 1] + map[n - 1].size + 4
  IN  [compliant |-> compliant_, flags |-> flags_, number |-> number_,
       mods |-> mods_, regions |-> [n \in DOMAIN map |-> address[n]],
       mmap_addr |-> address[1], mmap_length |-> address[Len(map) + 1] - address[1],
       memory |-> [a \in {address[n] : n \in DOMAIN map} |->
                     map[CHOOSE n \in DOMAIN map : address[n] = a]]]

MCInfos ==
  { Information(c, f, n, m, r) :
      c \in BOOLEAN, f \in {{0, 1, 2} \cup g : g \in SUBSET {3, 4, 5, 6}},
      n \in {0, 10, 16, 2047, 2048, 4095}, m \in {<<>>, <<4095, 256>>}, r \in MCMaps }

multiboot == <<mbi, at, i_, mmap, xpos, ypos, video, pending_, printed>>

(* Which of the two is not booted does nothing.                            *)
BootMyToyOS2 ==
  /\ Init
  /\ mbi = Information(FALSE, {}, 0, <<>>, <<>>) /\ at = "off"
  /\ i_ = 0 /\ mmap = 0 /\ xpos = 0 /\ ypos = 0 /\ video = [c \in Multiboot!Cell |-> "nothing"]
  /\ pending_ = <<>> /\ printed = <<>>

BootMyToyOS1 ==
  /\ call = <<>> /\ Init
  /\ Multiboot!MultibootInit

MachineNext ==
  \/ at = "off" /\ Next /\ UNCHANGED multiboot
  \/ Multiboot!MultibootNext /\ UNCHANGED vars

MachineSpec ==
  /\ BootMyToyOS2 \/ BootMyToyOS1
  /\ [][MachineNext]_<<vars, multiboot>>
  /\ WF_<<vars, multiboot>>(MachineNext)

-----------------------------------------------------------------------------
(* Either kernel comes to the end of what it prints.  Every round of       *)
(* _printf's loop looks at less of the format, and the terminal takes      *)
(* every character, scrolling as often as it must; cmain's two loops end,  *)
(* and the kernel halts.                                                   *)
PrintingEnds == <>(returned \/ (at = "halted" /\ pending_ = <<>>))
=============================================================================
