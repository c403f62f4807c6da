------------------------------- MODULE FbGrab -------------------------------
(***************************************************************************)
(* The pixel conversions of fbgrab.c: how the bytes read from a            *)
(* framebuffer of 15, 16, 24 or 32 bits become the blue, green, red and    *)
(* alpha bytes of the picture, and how large the buffers are.              *)
(***************************************************************************)
EXTENDS Naturals

Pixel(b, g, r, a) == [Blue |-> b, Green |-> g, Red |-> r, Alpha |-> a]

\* convert1555to32, of the two bytes of a pixel.
convert1555to32(b0, b1) ==
    Pixel(((b1 \div 4) % 32) * 8,
          (((b1 % 4) * 8 + (b0 \div 32)) * 8) % 256,
          (b0 % 32) * 8,
          0)

\* convert565to32.
convert565to32(b0, b1) ==
    Pixel((b0 % 32) * 8,
          ((b1 % 8) * 8 + (b0 \div 32)) * 4,
          b1 - (b1 % 8),
          0)

\* The input bytes that pixel i takes: two, or those at the offsets of the
\* colours (get_framebufferdata takes them from the device, `no alpha' as
\* the empty set).
InputBytes(bits, i, offsets) ==
    CASE bits \in {15, 16} -> {2 * i, 2 * i + 1}
      [] bits = 24 -> {i * 3 + o : o \in offsets}
      [] bits = 32 -> {i * 4 + o : o \in offsets}

\* The output bytes it fills; the 16-bit loops count i in steps of two and
\* double it.
OutputBytes(bits, i) ==
    LET first == IF bits \in {15, 16} THEN (2 * i) * 2 ELSE i * 4
    IN  first .. first + 3

\* A plausible slip: the depth is rounded down once more.
buf_size_short(bits, width, height) == width * height * ((bits - 8) \div 8)

\* main: the size of the input buffer and how much of it is read.
buf_size(bits, width, height) == width * height * (bits \div 8)

\* convert_and_write: the size of the output buffer.
bufsize(width, height) == width * height * 4

-----------------------------------------------------------------------------
\* The 16-bit conversions keep every bit of every colour, for each of the
\* 65536 pixel values: five, six and five bits of the little-endian word,
\* scaled to eight.  The 15-bit one takes blue from the upper end.
ColoursKept ==
    \A b0, b1 \in 0 .. 255 :
        LET w == b0 + 256 * b1
        IN  /\ convert565to32(b0, b1)
                  = Pixel((w % 32) * 8, ((w \div 32) % 64) * 4,
                          (w \div 2048) * 8, 0)
            /\ convert1555to32(b0, b1)
                  = Pixel(((w \div 1024) % 32) * 8, ((w \div 32) % 32) * 8,
                          (w % 32) * 8, 0)

\* At 16, 24 and 32 bits every pixel is converted from bytes that were read,
\* into bytes of its own that fill the output buffer.
BuffersMatch ==
    \A bits \in {16, 24, 32}, width, height \in 1 .. 4 :
        LET pixels == 0 .. width * height - 1
            offsets == 0 .. bits \div 8 - 1
        IN  /\ \A i \in pixels :
                  InputBytes(bits, i, offsets)
                      \subseteq 0 .. buf_size(bits, width, height) - 1
            /\ UNION {OutputBytes(bits, i) : i \in pixels}
                  = 0 .. bufsize(width, height) - 1
=============================================================================
