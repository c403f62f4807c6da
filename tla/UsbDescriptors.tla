--------------------------- MODULE UsbDescriptors ---------------------------
(***************************************************************************)
(* Assembling configuration descriptors: config.c, config_buf of           *)
(* composite.c, and the descriptor tables and config_buf1 of scale_usb.c.  *)
(* A descriptor is a record of its bLength and type; a null-terminated     *)
(* vector of descriptor pointers is a sequence.                            *)
(***************************************************************************)
EXTENDS Integers, Sequences, FiniteSets, SequencesExt

CONSTANTS
    BufSize,    \* USB_BUFSIZ of composite.c
    PtrSize     \* sizeof a descriptor pointer

EINVAL == -1
ConfigSize == 9     \* USB_DT_CONFIG_SIZE

Lengths(descs) == [i \in 1..Len(descs) |-> descs[i].bLength]
Total(descs) == FoldLeft(LAMBDA a, b : a + b, 0, Lengths(descs))

\* A plausible slip: the room left is not counted down.
fillbuf_whole(buflen, src) ==
    FoldLeft(LAMBDA n, len : IF n = EINVAL \/ len > buflen THEN EINVAL ELSE n + len,
             0, Lengths(src))

\* usb_descriptor_fillbuf: copy while the next descriptor fits; the result
\* is the number of bytes written.
usb_descriptor_fillbuf(buflen, src) ==
    FoldLeft(LAMBDA n, len : IF n = EINVAL \/ len > buflen - n THEN EINVAL ELSE n + len,
             0, Lengths(src))

\* usb_gadget_config_buf
usb_gadget_config_buf(length, desc) ==
    LET len == usb_descriptor_fillbuf(length - ConfigSize, desc)
    IN  IF length < ConfigSize \/ len < 0 \/ len + ConfigSize > 65535
        THEN EINVAL ELSE len + ConfigSize

\* config_buf: the configuration's own descriptors, then those of each
\* function that has a table at the speed (the others are empty here).
config_buf(own, tables) ==
    FoldLeft(LAMBDA n, t :
                 LET k == usb_descriptor_fillbuf(BufSize - n, t)
                 IN  IF n = EINVAL \/ k = EINVAL THEN EINVAL ELSE n + k,
             ConfigSize, <<own>> \o tables)

\* usb_copy_descriptors: one allocation holds the pointers with their null,
\* then the descriptors; the result is the offset each pointer holds.
usb_copy_descriptors(src) ==
    [i \in 1..Len(src) |-> (Len(src) + 1) * PtrSize + Total(SubSeq(src, 1, i - 1))]

\* usb_find_endpoint: the entry of copy at the position of match in src; 0
\* when it is not in src.
usb_find_endpoint(src, copy, match) ==
    IF \E i \in 1..Len(src) : src[i] = match
    THEN copy[CHOOSE i \in 1..Len(src) : src[i] = match /\ \A j \in 1..(i - 1) : src[j] # match]
    ELSE 0

-----------------------------------------------------------------------------
(* The tables of scale_usb.c.                                              *)

Desc(len, type, num, in) == [bLength |-> len, type |-> type, num |-> num, in |-> in]

DT_CONFIG == 2
DT_INTERFACE == 4
DT_ENDPOINT == 5
DT_OTG == 9

\* num is bNumInterfaces of the configuration, bNumEndpoints of the
\* interface, and the endpoint number.
config_desc1 == Desc(9, DT_CONFIG, 1, FALSE)
otg_desc == Desc(3, DT_OTG, 0, FALSE)
dmx_intf_desc == Desc(9, DT_INTERFACE, 6, FALSE)
dmx_ep_desc(n, in) == Desc(7, DT_ENDPOINT, n, in)

fs_dmx_scale_function ==
    <<otg_desc, config_desc1, dmx_intf_desc,
      dmx_ep_desc(2, FALSE), dmx_ep_desc(5, FALSE), dmx_ep_desc(8, FALSE),
      dmx_ep_desc(2, TRUE), dmx_ep_desc(5, TRUE), dmx_ep_desc(8, TRUE)>>

DescBufSize == 256      \* USB_DESC_BUFSIZE

\* config_buf1 steps over the otg descriptor, and passes the table from
\* behind its own configuration descriptor.
Config1Table == SubSeq(fs_dmx_scale_function, 3, Len(fs_dmx_scale_function))

config_buf1(index) ==
    IF index >= 1 THEN EINVAL ELSE usb_gadget_config_buf(DescBufSize, Config1Table)

-----------------------------------------------------------------------------
(* Properties, over vectors of descriptors.                                *)

\* The bytes of one configuration are all sent or none, never past the
\* buffer, and the length returned is what was written: for one vector
\* (config.c 44-117) and over the functions of a composite configuration
\* (composite.c 235-286).
ConfigurationFits(length, a, b) ==
    /\ LET want == ConfigSize + Total(a)
       IN  usb_gadget_config_buf(length, a) = (IF want <= length THEN want ELSE EINVAL)
    /\ LET want == ConfigSize + Total(a) + Total(b)
       IN  config_buf(a, <<b>>) = (IF want <= BufSize THEN want ELSE EINVAL)

\* A copied vector holds its descriptors side by side behind the null
\* pointer and inside the allocation, and the copy of an endpoint is found
\* at the place of its original (config.c 131-192).
CopyKeepsLayout(src) ==
    LET copy == usb_copy_descriptors(src)
        bytes == Total(src) + (Len(src) + 1) * PtrSize
    IN  /\ \A i \in 1..Len(src) :
              /\ copy[i] >= (Len(src) + 1) * PtrSize
              /\ copy[i] + src[i].bLength
                     = IF i = Len(src) THEN bytes ELSE copy[i + 1]
              /\ usb_find_endpoint(src, copy, src[i]) \in
                     {copy[j] : j \in {k \in 1..i : src[k] = src[i]}}

\* What the scale gadget sends as its configuration is well formed: its
\* interface and endpoint descriptors are as many as announced, follow one
\* another, and name distinct endpoints (scale_usb.c 271-353, 1137-1184).
ScaleConfigurationWellFormed ==
    LET t == Config1Table
        eps == {i \in 1..Len(t) : t[i].type = DT_ENDPOINT}
    IN  /\ config_buf1(0) = ConfigSize + Total(t) /\ config_buf1(1) = EINVAL
        /\ t[1].type = DT_INTERFACE
        /\ Cardinality({i \in 1..Len(t) : t[i].type = DT_INTERFACE}) = config_desc1.num
        /\ eps = 2..(1 + t[1].num)
        /\ \A i, j \in eps : t[i] = t[j] => i = j
=============================================================================
