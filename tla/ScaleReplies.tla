---------------------------- MODULE ScaleReplies ----------------------------
(***************************************************************************)
(* What scale_setup (test_gadget/scale_usb.c) puts into its one control    *)
(* buffer, and how much of the buffer it sends.  A request is a record of  *)
(* its type, bRequest or descriptor type, wValue and wIndex; a reply is    *)
(* the size of the response and the rule that says how much is copied.     *)
(***************************************************************************)
EXTENDS Integers, FiniteSets

Buffer == 256           \* USB_DESC_BUFSIZE

Least(a, b) == IF a < b THEN a ELSE b

\* The replies to vendor requests 0x31, 0x25, 0x02 and 0x21: bRequest,
\* wValue, wIndex, the bytes of the response, and whether the length asked
\* for is copied as it is.
VendorIdentity ==
    {<<49, 8, 0, 4, TRUE>>, <<37, 0, 0, 8, TRUE>>, <<2, 1, 0, 32, TRUE>>, <<2, 0, 0, 64, FALSE>>,
     <<33, 0, 1, 1, FALSE>>, <<33, 0, 0, 64, FALSE>>, <<33, 1, 0, 64, FALSE>>}

\* The replies to 0x06, 0x20 (the timings) and 0x30.
VendorTimings ==
    {<<6, 2, 0, 1, FALSE>>} \cup {<<32, 0, i, 2, FALSE>> : i \in {0, 1, 2, 3, 256, 257, 258, 259}}
    \cup {<<48, 65535, 0, 0, FALSE>>, <<48, 0, 1, 0, FALSE>>, <<48, 0, 0, 0, FALSE>>}

\* Standard and class requests that answer with data: the report and device
\* descriptors, the configuration, a string, the one byte of configuration,
\* interface and port status, and the PNP string, which is sent whole.
StandardReplies ==
    {<<"report", 52>>, <<"device", 18>>, <<"config", 60>>, <<"string", 32>>,
     <<"get_configuration", 1>>, <<"get_interface", 1>>, <<"port_status", 1>>}

PnpLength == 36

\* The replies to a request for wLength bytes: value is what is copied,
\* size what there is to copy, length (req->length) what is sent.
VendorReplies(wLength) ==
    {[value |-> IF v[5] THEN wLength ELSE Least(wLength, v[4]), size |-> v[4],
      length |-> IF <<v[1], v[2], v[3]>> = <<2, 0, 0>> THEN 64 ELSE wLength] :
        v \in {u \in VendorIdentity \cup VendorTimings : u[5] => wLength <= u[4]}}

OtherReplies(wLength) ==
    {[value |-> Least(wLength, s[2]), size |-> s[2], length |-> wLength] : s \in StandardReplies}
    \cup {[value |-> PnpLength, size |-> PnpLength, length |-> wLength],
          [value |-> Least(wLength, 32), size |-> 32, length |-> 32]}

\* The content of byte i of the buffer once scale_setup has cleared it from
\* value on.
Content(value, i) == IF i <= value THEN "reply" ELSE IF i <= Buffer THEN "zero" ELSE "outside"

-----------------------------------------------------------------------------

\* The host gets the reply and zeros behind it, never bytes of an earlier
\* reply, from behind the response or from outside the buffer, for every
\* length up to the buffer's (1665-1682).  The three replies that copy the
\* length asked for are taken up to the length their comments give
\* (1486-1513): beyond it they copy what lies behind the response.
ReplyIsClean(wLength) ==
    \A r \in VendorReplies(wLength) \cup OtherReplies(wLength) :
        /\ r.value <= r.size
        /\ \A i \in 1..r.length : Content(r.value, i) \in {"reply", "zero"}
=============================================================================
