----------------------------- MODULE UsbString -----------------------------
(***************************************************************************)
(* String descriptors: usbstring.c (UTF-8 to UTF-16LE, and the lookup of a *)
(* string by id) and the language list of composite.c.  A C string is a    *)
(* sequence of bytes without its terminator; reading behind the end reads  *)
(* the terminator, 0.                                                      *)
(***************************************************************************)
EXTENDS Integers, Sequences, FiniteSets, SequencesExt

CONSTANTS
    MaxChars,   \* 126, the most characters of a string descriptor
    ByteValues  \* 256, bLength is a byte

FAIL == <<-1>>

ByteAt(s, i) == IF i <= Len(s) THEN s[i] ELSE 0

\* (c & 0xc0) == 0x80, and the six bits it carries
IsTrail(c) == c \div 64 = 2
Trail(c) == c % 64

\* A plausible slip: halves of surrogate pairs are let through.
utf8_char_any(s, i) ==
    LET c == ByteAt(s, i)
        d == ByteAt(s, i + 1)
        e == ByteAt(s, i + 2)
    IN  CASE c < 128 -> [unit |-> c, bytes |-> 1]
          [] c \div 32 = 6 /\ IsTrail(d) -> [unit |-> (c % 32) * 64 + Trail(d), bytes |-> 2]
          [] c \div 16 = 14 /\ IsTrail(d) /\ IsTrail(e) ->
                [unit |-> (c % 16) * 4096 + Trail(d) * 64 + Trail(e), bytes |-> 3]
          [] OTHER -> [unit |-> 0, bytes |-> 0]

\* One character of utf8_to_utf16le starting at byte i: its UTF-16 unit and
\* the bytes it takes, or no bytes when the encoding is refused.
utf8_char(s, i) ==
    LET c == ByteAt(s, i)
        d == ByteAt(s, i + 1)
        e == ByteAt(s, i + 2)
        two == (c % 32) * 64 + Trail(d)
        three == (c % 16) * 4096 + Trail(d) * 64 + Trail(e)
        refused == [unit |-> 0, bytes |-> 0]
    IN  CASE c < 128 -> [unit |-> c, bytes |-> 1]
          [] c \div 32 = 6 ->
                IF IsTrail(d) THEN [unit |-> two, bytes |-> 2] ELSE refused
          [] c \div 16 = 14 ->
                IF IsTrail(d) /\ IsTrail(e) /\ three \notin 55296..57343
                THEN [unit |-> three, bytes |-> 3] ELSE refused
          [] OTHER -> refused

\* utf8_to_utf16le: at most len units, up to the terminator; the whole
\* string is refused when one character is.
utf8_to_utf16le(s, len) ==
    LET conv[i \in 1..(Len(s) + 1), n \in 0..len] ==
            IF n = 0 \/ ByteAt(s, i) = 0 THEN <<>>
            ELSE LET ch == utf8_char(s, i)
                 IN  IF ch.bytes = 0 THEN FAIL
                     ELSE LET rest == conv[i + ch.bytes, n - 1]
                          IN  IF rest = FAIL THEN FAIL ELSE <<ch.unit>> \o rest
    IN  conv[1, len]

\* strlen
StrLen(s) == IF \E i \in 1..Len(s) : s[i] = 0
             THEN (CHOOSE i \in 1..Len(s) : s[i] = 0 /\ \A j \in 1..(i - 1) : s[j] # 0) - 1
             ELSE Len(s)

\* usb_gadget_get_string: table is a record of a language and a sequence of
\* entries [id, s].  The reply is bLength and the units, or FAIL.
usb_gadget_get_string(table, id) ==
    LET hits == SelectSeq(table.strings, LAMBDA e : e.id = id)
        limit == IF StrLen(hits[1].s) < MaxChars THEN StrLen(hits[1].s) ELSE MaxChars
        text == utf8_to_utf16le(hits[1].s, limit)
    IN  CASE id = 0 -> [bLength |-> 4, data |-> <<table.language>>]
          [] id # 0 /\ hits = <<>> -> [bLength |-> -1, data |-> FAIL]
          [] OTHER -> IF text = FAIL THEN [bLength |-> -1, data |-> FAIL]
                      ELSE [bLength |-> (2 * (Len(text) + 1)) % ByteValues, data |-> text]

\* collect_langs: append each language not yet in the list; when the list
\* is full, the slot behind it takes every further language.
collect_langs(langs, tables) ==
    FoldLeft(LAMBDA list, t :
                 LET n == IF Len(list) < MaxChars THEN Len(list) ELSE MaxChars
                 IN  IF \E i \in 1..n : list[i] = t.language THEN list
                     ELSE Append(SubSeq(list, 1, n), t.language),
             langs, tables)

\* get_string for id 0: the languages of every table, in order.
get_languages(tables) ==
    LET list == collect_langs(<<>>, tables)
    IN  [bLength |-> (2 * (Len(list) + 1)) % ByteValues, data |-> list]

\* lookup_string: the first table of the language that has the id.
lookup_string(tables, language, id) ==
    LET good == SelectSeq(tables, LAMBDA t :
                    t.language = language /\ usb_gadget_get_string(t, id).bLength > 0)
    IN  IF good = <<>> THEN [bLength |-> -1, data |-> FAIL]
        ELSE usb_gadget_get_string(good[1], id)

-----------------------------------------------------------------------------
(* The encoding that utf8_to_utf16le has to invert.                        *)

Utf8(cp) ==
    CASE cp < 128 -> <<cp>>
      [] cp \in 128..2047 -> <<192 + cp \div 64, 128 + (cp % 64)>>
      [] OTHER -> <<224 + cp \div 4096, 128 + ((cp \div 64) % 64), 128 + (cp % 64)>>

Encode(cps) == FoldLeft(LAMBDA acc, cp : acc \o Utf8(cp), <<>>, cps)

\* Converting an encoded string gives back its characters, cut to the limit
\* between two characters; a string cut inside its last character, or with a
\* surrogate, is refused (usbstring.c 23-84).
StringRoundTrip(cps, cut) ==
    LET s == Encode(cps)
        whole == SubSeq(s, 1, Len(s) - cut)
        refused == cut > 0 \/ \E i \in 1..Len(cps) : cps[i] \in 55296..57343
    IN  utf8_to_utf16le(whole, Len(s)) = (IF refused THEN FAIL ELSE cps)

\* A string descriptor never exceeds a byte-sized length, is as long as it
\* says, and holds the string's first MaxChars characters (104-135).
StringDescriptorFits(cps) ==
    LET r == usb_gadget_get_string([language |-> 9, strings |-> <<[id |-> 1, s |-> Encode(cps)]>>], 1)
    IN  r.data # FAIL =>
            /\ r.bLength = 2 * (Len(r.data) + 1)
            /\ r.data = SubSeq(cps, 1, IF Len(cps) < MaxChars THEN Len(cps) ELSE MaxChars)

\* String 0 lists every language of the tables once, as long as they are at
\* most MaxChars; an id is found in every language that defines it
\* (composite.c 615-699).
LanguagesListed(langs) ==
    LET tables == [i \in 1..Len(langs) |->
                      [language |-> langs[i], strings |-> <<[id |-> i, s |-> <<65>>]>>]]
        reply == get_languages(tables)
    IN  Cardinality(Range(langs)) <= MaxChars =>
            /\ Range(reply.data) = Range(langs)
            /\ reply.bLength = 2 * (Cardinality(Range(langs)) + 1)
            /\ \A i \in 1..Len(langs) : lookup_string(tables, langs[i], i).data = <<65>>
=============================================================================
