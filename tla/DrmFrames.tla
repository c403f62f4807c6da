----------------------------- MODULE DrmFrames -----------------------------
(***************************************************************************)
(* The sizes that test_drm/testdrm.c works with: the table of timings, the *)
(* dumb buffers it creates for one, the copy of a frame into a buffer, and *)
(* the mode it sets.  The connector's modes and the alignment of a row are *)
(* the device's.                                                           *)
(***************************************************************************)
EXTENDS Naturals

Dim(w, h) == [w |-> w, h |-> h]

\* mminfo: the displayed sizes of the six timings, numbered from 0.
Mminfo == [t \in 0 .. 5 |-> CASE t \in {0, 1} -> Dim(800, 480)
                              [] t = 2 -> Dim(848, 480)
                              [] t \in {3, 4} -> Dim(1920, 1080)
                              [] t = 5 -> Dim(600, 240)]

\* A plausible slip: the small timing takes the connector's mode as well.
BufferSizeMode(t, mode) ==
    IF Mminfo[t].w = 800 THEN Dim(800, 480) ELSE mode

\* main: the size of the buffers for a timing.
BufferSize(t, mode) ==
    CASE Mminfo[t].w = 800 -> Dim(800, 480)
      [] Mminfo[t].w = 600 -> Dim(600, 240)
      [] OTHER -> mode

\* modeset_create_fb: three bytes to the pixel, rows aligned by the device.
Pitch(width, alignment) ==
    ((width * 3 + alignment - 1) \div alignment) * alignment
BytesOf(s, alignment) == Pitch(s.w, alignment) * s.h

\* fill_frame_buffer and fill_drm: bytes filled, and bytes copied.
FilledBytes(t) == Mminfo[t].w * Mminfo[t].h * 3
AllocatedBytes(t) == Mminfo[t].w * Mminfo[t].h * 4
fill_drm(t) == Mminfo[t].w * Mminfo[t].h * 3

\* init_timing, which only the timings of width 800 use.
init_timing(t, mode) == IF Mminfo[t].w = 800 THEN Mminfo[t] ELSE mode

-----------------------------------------------------------------------------
Modes == {Dim(800, 480), Dim(848, 480), Dim(1280, 720), Dim(1920, 1080)}
Alignments == {1, 4, 64}
Fits(a, b) == a.w <= b.w /\ a.h <= b.h

\* A frame fits into the buffer it is copied to and comes from memory that
\* was filled: for the timings with buffers of their own always, for the
\* others when the connector's mode is as large as the timing.
CopyFits ==
    \A t \in DOMAIN Mminfo, mode \in Modes, a \in Alignments :
        Mminfo[t].w \in {600, 800} \/ Fits(Mminfo[t], mode) =>
            /\ fill_drm(t) <= BytesOf(BufferSize(t, mode), a)
            /\ fill_drm(t) <= FilledBytes(t)
            /\ FilledBytes(t) <= AllocatedBytes(t)

\* The mode that is set is covered by the buffer, but for the timing of width
\* 600, which sets the connector's fourth mode as it is.
ModeCovered ==
    \A t \in DOMAIN Mminfo, mode \in Modes :
        Mminfo[t].w # 600 => Fits(init_timing(t, mode), BufferSize(t, mode))
=============================================================================
