----------------------------- MODULE QfpLimits -----------------------------
(***************************************************************************)
(* The limit check that both requests of qfp_fuse_ioctl make.              *)
(***************************************************************************)
EXTENDS Naturals

\* The limit check: offset and size are 32-bit in the code, W-bit here.
InLimits(W, base, end, offset, size) ==
    size # 0 /\ (base + offset + size * 4) % 2^W <= end

\* A request that was accepted and does not wrap touches no word behind the
\* end of the fuse area (the limit check of both requests).
LimitsRespected ==
    \A base \in {0, 8}, offset, size \in 0 .. 63 :
        LET end == base + 31
        IN  InLimits(6, base, end, offset, size)
              /\ base + offset + size * 4 < 64
                => base + offset + size * 4 - 1 <= end
=============================================================================
