-------------------------------- MODULE Uart --------------------------------
(***************************************************************************)
(* COM1 as serial.c uses it: a chip of the 8250 family, polled.  What the  *)
(* chip does is external, as the pages readme.md refers to describe it:    *)
(* the bytes its receiver holds, and what is lost when it holds no more.   *)
(***************************************************************************)
EXTENDS Integers, Sequences

CONSTANT FifoDepth   (* bytes a chip with a working FIFO holds, 16 or 64   *)

Chips == {"8250", "16450", "16550", "16550A", "16750"}
WithFifoControl == {"16550", "16550A", "16750"}
WithFifo == {"16550A", "16750"}   (* ... that works                        *)

ASSUME UartAssumption == FifoDepth \in [WithFifo -> Nat \ {0}]

VARIABLES
  chip,
  fifoEnabled,   (* is a FIFO on, and does it work?                        *)
  rbr,           (* bytes received and not read                            *)
  uart_model,    (* what detect_uart_model has returned, ...               *)
  connected      (* ... and what is_serial_connected has                   *)

reports == <<uart_model, connected>>
uartVars == <<chip, fifoEnabled, rbr, reports>>

UartInit ==
  /\ chip \in Chips
  /\ fifoEnabled = FALSE
  /\ rbr = <<>>
  /\ uart_model = "unknown" /\ connected = FALSE

Depth == IF fifoEnabled THEN FifoDepth[chip] ELSE 1

-----------------------------------------------------------------------------
(* The bits 5 to 7 of the interrupt identification register once 0xE7 is   *)
(* in the FIFO control register: the 16550's FIFO does not work.           *)
IdentificationBits ==
  CASE chip = "16750"  -> {5, 6, 7}
    [] chip = "16550A" -> {6, 7}
    [] chip = "16550"  -> {7}
    [] OTHER           -> {}

KeepsScratch == chip # "8250"

(* The ifs of detect_uart_model, each else with the if it belongs to.      *)
ModelByBitsDangling(b) ==
  IF 6 \in b
    THEN IF 7 \in b /\ 5 \in b THEN "16750"
         ELSE IF KeepsScratch THEN "16450" ELSE "8250"
    ELSE "16550A"
ModelByBits(b) ==
  IF 6 \in b
    THEN IF 7 \in b THEN IF 5 \in b THEN "16750" ELSE "16550A"
                    ELSE "16750"
    ELSE IF KeepsScratch THEN "16450" ELSE "8250"

(* 0xE7 turns the FIFOs on and empties them: what such a chip has received *)
(* before is gone.  The chips without keep their byte.                     *)
detect_uart_model ==
  /\ fifoEnabled' = (chip \in WithFifo)
  /\ rbr' = IF chip \in WithFifoControl THEN <<>> ELSE rbr
  /\ uart_model' = ModelByBits(IdentificationBits)
  /\ UNCHANGED chip

(* It reads back what it has written to the scratch register, in which     *)
(* nothing else is kept.                                                   *)
is_serial_connected == connected' = KeepsScratch

(* serial_received *)
DataReady == rbr # <<>>

(* inb(PORT), once there is data.                                          *)
ReadData == DataReady /\ rbr' = Tail(rbr) /\ UNCHANGED <<chip, fifoEnabled, reports>>

(* A byte comes in; with the receiver full it is lost, or, in a chip       *)
(* without FIFO, takes the place of the one not read.                      *)
HasRoom == Len(rbr) < Depth
Receive(b) ==
  /\ rbr' = IF HasRoom THEN Append(rbr, b)
            ELSE IF fifoEnabled THEN rbr ELSE <<b>>
  /\ UNCHANGED <<chip, fifoEnabled, reports>>

-----------------------------------------------------------------------------
(* The model reported is the chip's; a 16550 counts as the 16450 it is     *)
(* without its FIFO, and the FIFO is on exactly if the model has one.  The *)
(* line looks connected unless the chip is the one without a scratch       *)
(* register (detect_uart_model, is_serial_connected).                      *)
ModelIsTheChip ==
  uart_model # "unknown" =>
    /\ uart_model = IF chip = "16550" THEN "16450" ELSE chip
    /\ fifoEnabled <=> uart_model \in WithFifo
    /\ connected <=> uart_model # "8250"
=============================================================================
