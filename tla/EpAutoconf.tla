----------------------------- MODULE EpAutoconf -----------------------------
(***************************************************************************)
(* Choosing an endpoint (epautoconf.c) and the controllers the gadget      *)
(* library knows by name (gadget_chips.h).                                 *)
(*                                                                         *)
(* An endpoint's name is its parts: the number ("ep2"; 0 in "ep-a"), the   *)
(* direction and the type suffix ("" for none), with its maxpacket.  A     *)
(* request is the type, direction, size and high bandwidth bits of the     *)
(* descriptor.                                                             *)
(***************************************************************************)
EXTENDS Integers, Sequences, FiniteSets, SequencesExt

CONSTANT MaxEpNum   \* 15

\* The controllers of the gadget_is_* tests, with the two binary coded
\* digits that usb_gadget_controller_number gives them.
ControllerDigits ==
    [net2280 |-> 1, dummy_udc |-> 2, pxa25x_udc |-> 3, goku_udc |-> 6, omap_udc |-> 8,
     pxa27x_udc |-> 11, s3c2410_udc |-> 12, at91_udc |-> 13, imx_udc |-> 14, musb_hdrc |-> 16,
     atmel_usba_udc |-> 18, fsl_usb2_udc |-> 19, amd5536udc |-> 20, m66592_udc |-> 21,
     fsl_qe_udc |-> 22, ci13xxx_pci |-> 23, langwell_udc |-> 24, r8a66597_udc |-> 25,
     s3c_hsotg |-> 26, pch_udc |-> 27, ci13xxx_msm |-> 28, renesas_usbhs_udc |-> 29,
     s3c_hsudc |-> 30]

usb_gadget_controller_number(name) ==
    IF name \in DOMAIN ControllerDigits
    THEN 16 * (ControllerDigits[name] \div 10) + (ControllerDigits[name] % 10) ELSE -1

\* bcdDevice as scale_bind sets it.
bcdDevice(name) ==
    LET gcnum == usb_gadget_controller_number(name)
    IN  IF gcnum >= 0 THEN 512 + gcnum ELSE 264

-----------------------------------------------------------------------------

\* The restrictions in an endpoint's name.
NameAllows(gadget, ep, d) ==
    ep.num # 0 =>
        /\ CASE ep.type = "" -> TRUE
             [] d.type = "int" -> ep.type # "iso" /\ ~(gadget = "pxa25x_udc" /\ ep.type = "int")
             [] d.type = "bulk" -> ep.type = "bulk"
             [] d.type = "iso" -> ep.type = "iso"
        /\ ep.dir # "" => ep.dir = d.dir

\* The limits on a periodic endpoint's packet size.
SizeAllows(dual, ep, d, max) ==
    d.type # "bulk" =>
        /\ d.type = "int" /\ ~dual => max <= 64
        /\ ep.max >= max /\ (~dual => max <= 1023)
        /\ d.highbw => dual

\* A plausible slip: an endpoint in use is not passed over.
ep_matches_claimed(g, ep, claimed, d, max, epnum) ==
    LET fits == NameAllows(g.name, ep, d) /\ SizeAllows(g.dual, ep, d, max)
    IN  [ok |-> fits, max |-> max, epnum |-> epnum, address |-> <<d.dir, ep.num>>]

\* ep_matches: whether the endpoint is taken, the descriptor's size (set
\* from the endpoint even by a refusal) and address, and the next epnum.
ep_matches(g, ep, claimed, d, max, epnum) ==
    LET named == ep \notin claimed /\ NameAllows(g.name, ep, d)
        size == IF named /\ max = 0 THEN ep.max ELSE max
        fits == named /\ SizeAllows(g.dual, ep, d, size)
        number == IF ep.num # 0 THEN ep.num ELSE epnum + 1
        ok == fits /\ number <= MaxEpNum
    IN  [ok |-> ok,
         max |-> IF ok /\ d.type = "bulk" THEN (IF ep.max > 64 THEN 64 ELSE ep.max) ELSE size,
         address |-> <<d.dir, number>>,
         epnum |-> IF fits /\ ep.num = 0 THEN epnum + 1 ELSE epnum]

\* The endpoints the controller's quirks try first, as positions.
Preferred(g, d) ==
    LET find_ep(name) == SelectSeq(g.eps, LAMBDA ep : ep.name = name)
    IN  CASE g.name = "net2280" /\ d.type = "int" -> find_ep("ep-e") \o find_ep("ep-f")
          [] g.name = "goku_udc" /\ d.type = "int" -> find_ep("ep3-bulk")
          [] g.name = "goku_udc" /\ d.type = "bulk" /\ d.dir = "in" -> find_ep("ep2-bulk")
          [] OTHER -> <<>>

\* usb_ep_autoconfig: the first endpoint that matches.
usb_ep_autoconfig(g, claimed, d, epnum) ==
    FoldLeft(LAMBDA r, ep :
                 IF r.ep # <<>> THEN r
                 ELSE LET m == ep_matches(g, ep, claimed, d, r.max, r.epnum)
                      IN  [ep |-> IF m.ok THEN <<ep>> ELSE <<>>, max |-> m.max,
                           address |-> m.address, epnum |-> m.epnum],
             [ep |-> <<>>, max |-> d.max, address |-> <<>>, epnum |-> epnum],
             Preferred(g, d) \o g.eps)

\* A driver's bind after usb_ep_autoconfig_reset: it claims each endpoint it
\* is given.  The results, in order.
Autoconfigure(g, ds) ==
    FoldLeft(LAMBDA acc, d :
                 LET claimed == {acc[i].ep[1] : i \in {j \in 1..Len(acc) : acc[j].ep # <<>>}}
                     epnum == IF acc = <<>> THEN 0 ELSE Last(acc).epnum
                 IN  Append(acc, usb_ep_autoconfig(g, claimed, d, epnum)),
             <<>>, ds)

-----------------------------------------------------------------------------

\* Endpoints given out between two resets have distinct addresses on every
\* controller whose endpoints are either all numbered or all unnumbered
\* (epautoconf.c 164-180, 239-325).
AddressesDistinct(g, ds) ==
    LET rs == Autoconfigure(g, ds)
    IN  \A i, j \in 1..Len(rs) :
            i # j /\ rs[i].ep # <<>> /\ rs[j].ep # <<>> =>
                rs[i].address # rs[j].address /\ rs[i].ep # rs[j].ep

\* What is given out can do the transfer, and a request is refused only if
\* no free endpoint could have done it (62-195): trying an endpoint in vain
\* costs a later one neither its size nor its number.
AutoconfigComplete(g, ds) ==
    LET rs == Autoconfigure(g, ds)
        Free(i) == Range(g.eps) \ {rs[j].ep[1] : j \in {k \in 1..(i - 1) : rs[k].ep # <<>>}}
        Can(ep, d) == /\ ep.dir \in {"", d.dir}
                      /\ d.type # "bulk" => ep.max >= d.max
                      /\ ep.type \in (IF d.type = "int" THEN {"", "bulk", "int"} ELSE {"", d.type})
                      /\ g.name = "pxa25x_udc" /\ d.type = "int" => ep.type # "int"
                      /\ ~g.dual => ~d.highbw /\ (d.type = "int" => d.max <= 64)
    IN  \A i \in 1..Len(rs) :
            IF rs[i].ep # <<>>
            THEN rs[i].ep[1] \in Free(i) /\ Can(rs[i].ep[1], ds[i])
            ELSE \A ep \in Free(i) : ~Can(ep, ds[i])
\* The device release number is binary coded decimal and tells the host
\* which controller the gadget runs on (gadget_chips.h 178-228).
ReleaseIdentifies(name) ==
    /\ bcdDevice(name) % 16 < 10 /\ (bcdDevice(name) \div 16) % 16 < 10
    /\ \A other \in DOMAIN ControllerDigits \cup {"unknown"} :
          bcdDevice(other) = bcdDevice(name) => other = name
=============================================================================
