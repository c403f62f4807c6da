------------------------------ MODULE MCGadget ------------------------------
(***************************************************************************)
(* The gadget library.  Its state machine, the composite framework, runs   *)
(* over two configurations: c1 with two functions, c2 with one that works  *)
(* only at full speed.  Its pure functions are evaluated over bounded      *)
(* inputs, each in an initial state of its own.                            *)
(***************************************************************************)
EXTENDS Composite, UsbString, UsbDescriptors, EpAutoconf, ScaleReplies

VARIABLE input

MCConfigs == {"c1", "c2"}
MCFuncs == {"f1", "f2", "f3"}
MCPlan == <<"c1", "c2">>
MCFunctionsOf == [c \in MCConfigs |-> IF c = "c1" THEN <<"f1", "f2">> ELSE <<"f3">>]
MCValue == [c \in MCConfigs |-> IF c = "c1" THEN 1 ELSE 2]
MCPower == [c \in MCConfigs |-> IF c = "c1" THEN 125 ELSE 0]
MCInterfaces == [f \in MCFuncs |-> IF f = "f2" THEN 2 ELSE 1]
MCEndpoints == [f \in MCFuncs |-> 1]
MCStrings == [f \in MCFuncs |-> IF f = "f1" THEN 1 ELSE 2]
MCDescriptors == [f \in MCFuncs |-> IF f = "f3" THEN {"full"} ELSE Speeds]
MCDelayFuncs == {"f1", "f2"}
MCHoldFuncs == {"f1", "f3"}

-----------------------------------------------------------------------------

\* Characters at the edges of one, two and three bytes, and a surrogate.
CodePoints == {65, 127, 128, 2047, 2048, 8364, 55296, 57344, 65535}
Descs == {Desc(2, DT_ENDPOINT, 1, FALSE), Desc(7, DT_ENDPOINT, 1, FALSE), Desc(9, DT_INTERFACE, 1, FALSE)}

Ep(name, num, dir, type, max) ==
    [name |-> name, num |-> num, dir |-> dir, type |-> type, max |-> max]
Controllers ==
    {[name |-> "net2280", dual |-> TRUE,
      eps |-> <<Ep("ep-a", 0, "", "", 1024), Ep("ep-e", 0, "", "", 64), Ep("ep-f", 0, "", "", 64)>>],
     [name |-> "goku_udc", dual |-> FALSE,
      eps |-> <<Ep("ep1-bulk", 1, "", "bulk", 64), Ep("ep2-bulk", 2, "", "bulk", 64),
                Ep("ep3-bulk", 3, "", "bulk", 8)>>],
     [name |-> "pxa25x_udc", dual |-> FALSE,
      eps |-> <<Ep("ep1in-bulk", 1, "in", "bulk", 64), Ep("ep2out-bulk", 2, "out", "bulk", 64),
                Ep("ep3in-iso", 3, "in", "iso", 256), Ep("ep5in-int", 5, "in", "int", 8)>>],
     [name |-> "at91_udc", dual |-> FALSE,
      eps |-> <<Ep("ep1", 1, "", "", 64), Ep("ep2", 2, "", "", 64), Ep("ep3-int", 3, "", "int", 8)>>]}
Requests ==
    {[type |-> t, dir |-> d, max |-> m, highbw |-> FALSE] :
        t \in {"int", "iso"}, d \in {"in", "out"}, m \in {8, 128}}
    \cup {[type |-> "bulk", dir |-> d, max |-> 0, highbw |-> FALSE] : d \in {"in", "out"}}
    \cup {[type |-> "iso", dir |-> "in", max |-> 8, highbw |-> TRUE]}

NoInput == [kind |-> "none"]
Inputs ==
    [kind : {"text"}, cps : BoundedSeq(CodePoints, 3), cut : {0}]
    \cup {[kind |-> "text", cps |-> <<a, b>>, cut |-> 1] : a \in CodePoints, b \in CodePoints \ 0..127}
    \cup [kind : {"langs"}, langs : BoundedSeq({7, 9, 12}, 4)]
    \cup [kind : {"descs"}, length : {8, 9, 20, 27}, a : BoundedSeq(Descs, 3), b : BoundedSeq(Descs, 2)]
    \cup [kind : {"eps"}, gadget : Controllers, ds : BoundedSeq(Requests, 3)]
    \cup [kind : {"chip"}, name : DOMAIN ControllerDigits]
    \cup [kind : {"reply"}, wLength : {0, 1, 2, 4, 8, 18, 31, 32, 52, 60, 64, 65, 255, 256}]

GadgetInit == Init /\ input \in Inputs \cup {NoInput}
GadgetNext == input = NoInput /\ Next /\ UNCHANGED input
GadgetSpec == GadgetInit /\ [][GadgetNext]_<<vars, input>> /\ Fairness

\* usbstring.c over strings up to three characters, whole or cut, and
\* composite.c's string 0 over up to four string tables: what the host is told
\* is the text, and every language once.
TextConverts ==
    /\ input.kind = "text" =>
          StringRoundTrip(input.cps, input.cut) /\ StringDescriptorFits(input.cps)
    /\ input.kind = "langs" => LanguagesListed(input.langs)

\* config.c, config_buf and usb_find_endpoint over descriptor vectors, the
\* scale gadget's own configuration, and scale_setup's replies over lengths at
\* every boundary: the bytes sent are whole, fit, and say what they announce.
SentBytesAgree ==
    /\ input.kind = "descs" =>
          ConfigurationFits(input.length, input.a, input.b) /\ CopyKeepsLayout(input.a)
    /\ ScaleConfigurationWellFormed
    /\ input.kind = "reply" => ReplyIsClean(input.wLength)

\* usb_ep_autoconfig over up to three requests on four controllers gives
\* distinct endpoints and refuses a request only if no endpoint would do;
\* usb_gadget_controller_number tells every two controllers apart.
EndpointsChosen ==
    /\ input.kind = "eps" => /\ AddressesDistinct(input.gadget, input.ds)
                             /\ AutoconfigComplete(input.gadget, input.ds)
    /\ input.kind = "chip" => ReleaseIdentifies(input.name)
=============================================================================
