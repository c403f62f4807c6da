------------------------------ MODULE SpiBits ------------------------------
(***************************************************************************)
(* The bit order of test_spi/spi2apb.c: before the slave has been switched *)
(* to take the highest bit first, the bits of every byte sent to it are    *)
(* turned round.                                                           *)
(***************************************************************************)
EXTENDS Naturals, Functions

\* int8_msb2lsb: bit i of a byte moves to bit 7 - i.
BitAt(x, i) == (x \div 2^i) % 2

int8_msb2lsb(b) ==
    FoldFunction(+, 0, [i \in 0 .. 7 |-> BitAt(b, i) * 2^(7 - i)])

\* int32_msb2lsb: each of the four bytes is turned round in its place.
int32_msb2lsb(bytes) == [i \in 1 .. 4 |-> int8_msb2lsb(bytes[i])]

\* What a slave that takes the lowest bit first makes of a byte that the
\* controller shifts out highest bit first.
Received(b) ==
    LET shifted == [n \in 0 .. 7 |-> BitAt(b, 7 - n)]
    IN  FoldFunction(+, 0, [n \in 0 .. 7 |-> shifted[n] * 2^n])

\* spi2apb_lsb_w32: command, address and data, each turned round, in one
\* message.  A word is the sequence of its bytes, the lowest first.
APB_CMD_WRITE == <<17, 0, 0, 0>>

lsb_w32(addr, data) ==
    <<int32_msb2lsb(APB_CMD_WRITE), int32_msb2lsb(addr), int32_msb2lsb(data)>>

\* spi2apb_switch_to_msb: SPI_ENR is cleared, then SPI_CTRL0 is set.
switch_to_msb == <<lsb_w32(<<8, 0, 6, 17>>, <<0, 0, 0, 0>>),
                   lsb_w32(<<0, 0, 6, 17>>, <<2, 128, 16, 0>>)>>

\* What a slave that takes the lowest bit first reads in a message.
Read(message) == [w \in 1 .. 3 |-> [i \in 1 .. 4 |-> Received(message[w][i])]]

\* A slave that still takes the lowest bit first reads, of a message whose
\* words lsb_w32 turned round, the write command with the address and the
\* data themselves, for every byte value in every place; the two writes of
\* spi2apb_switch_to_msb reach the registers they name.
TurnedBytesArrive ==
    /\ \A b \in 0 .. 255 : \A i \in 1 .. 4 :
          LET word == [j \in 1 .. 4 |-> IF j = i THEN b ELSE 77]
          IN  /\ Read(lsb_w32(word, <<1, 2, 3, 4>>))
                    = <<APB_CMD_WRITE, word, <<1, 2, 3, 4>>>>
              /\ Read(lsb_w32(<<1, 2, 3, 4>>, word))
                    = <<APB_CMD_WRITE, <<1, 2, 3, 4>>, word>>
    /\ [n \in 1 .. 2 |-> Read(switch_to_msb[n])[2]]
          = <<<<8, 0, 6, 17>>, <<0, 0, 6, 17>>>>
=============================================================================
