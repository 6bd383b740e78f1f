-------------------------------- MODULE SpiBus --------------------------------
(***************************************************************************)
(* What the SPI driver promises a caller: its bytes are exchanged one by    *)
(* one, in their order, with one chip, which is selected for exactly that   *)
(* time; and a Read gives the bytes that came back.                         *)
(***************************************************************************)
EXTENDS Naturals, Sequences

CONSTANTS Chip, Byte

VARIABLES selected,   \* the chip, in a set of at most one
          asked,      \* what is to be sent, in the order on the line
          sent,       \* what has been
          received,   \* what the chip has answered
          answer      \* what the caller has been given

vars == <<selected, asked, sent, received, answer>>

Init ==
  /\ selected = {}
  /\ asked = <<>> /\ sent = <<>> /\ received = <<>> /\ answer = <<>>

Select(chip) ==
  /\ selected = {}
  /\ selected' = {chip}
  /\ asked' \in Seq(Byte) /\ asked' # <<>>
  /\ sent' = <<>> /\ received' = <<>> /\ answer' = <<>>

Exchange(byte) ==
  /\ selected # {}
  /\ Len(sent) < Len(asked)
  /\ sent' = Append(sent, asked[Len(sent) + 1])
  /\ received' = Append(received, byte)
  /\ UNCHANGED <<selected, asked, answer>>

Deselect ==
  /\ selected # {}
  /\ sent = asked
  /\ selected' = {}
  /\ answer' \in {<<>>, received}
  /\ UNCHANGED <<asked, sent, received>>

Next == Deselect \/ (\E chip \in Chip : Select(chip)) \/ (\E byte \in Byte : Exchange(byte))

Spec == Init /\ [][Next]_vars
================================================================================
