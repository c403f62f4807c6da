---------------------------- MODULE JsonComments ----------------------------
(***************************************************************************)
(* How mmu_tools.py takes the comments out of its configuration file: the  *)
(* class xstr, which load_json applies to every line that is not empty and *)
(* not all comment.                                                        *)
(***************************************************************************)
EXTENDS Naturals, Sequences, FiniteSets, FiniteSetsExt

\* The comments of the JSON file.  A line is a sequence of "quote", "back"
\* (backslash), "slash" and "x" for the rest.
Symbols == {"quote", "back", "slash", "x"}
IndexError == <<"IndexError">>

\* The backslashes right before place q of a line that starts at `begin'.
Backs(line, begin, q) ==
    Cardinality({b \in begin .. q - 1 :
                    \A c \in b .. q - 1 : line[c] = "back"})

\* The begin of the piece rmCmt looks at for the quote at place q: behind the
\* quote before it, or behind the `//' the search went on from.
PieceBegin(line, from, q) ==
    LET before == {p \in from .. q - 1 : line[p] = "quote"}
    IN  IF before = {} THEN from ELSE Max(before) + 1

\* A plausible slip: one backslash is enough, whatever stands before it.
isEscapeOpr_any(line, from, q) == Backs(line, PieceBegin(line, from, q), q) > 0

\* isEscapeOpr of the piece before a quote.
isEscapeOpr(line, from, q) ==
    Backs(line, PieceBegin(line, from, q), q) % 2 = 1

\* It indexes an empty string when the piece is made of backslashes only.
Breaks(line, from, q) ==
    LET begin == PieceBegin(line, from, q)
    IN  begin < q /\ Backs(line, begin, q) = q - begin

\* rmCmt: the search goes on from a place with an even or odd number of
\* quotes so far.
rmCmt(line) ==
    LET scan[st \in (1 .. Len(line) + 1) \X {0, 1}] ==
            LET from == st[1]
                found == {p \in from .. Len(line) - 1 :
                             line[p] = "slash" /\ line[p + 1] = "slash"}
                p == Min(found)
                quotes == {q \in from .. p - 1 : line[q] = "quote"}
                count == Cardinality({q \in quotes :
                                         ~isEscapeOpr(line, from, q)})
            IN  IF found = {} THEN line
                ELSE IF \E q \in quotes : Breaks(line, from, q) THEN IndexError
                ELSE IF (st[2] + count) % 2 = 0 THEN SubSeq(line, 1, p - 1)
                ELSE scan[<<p + 2, (st[2] + count) % 2>>]
    IN  scan[<<1, 0>>]

\* The line up to the first `//' that is not inside a string.
WithoutComment(line) ==
    LET Real(q) == line[q] = "quote" /\ Backs(line, 1, q) % 2 = 0
        starts == {p \in 1 .. Len(line) - 1 :
                      /\ line[p] = "slash" /\ line[p + 1] = "slash"
                      /\ Cardinality({q \in 1 .. p - 1 : Real(q)}) % 2 = 0}
    IN  IF starts = {} THEN line ELSE SubSeq(line, 1, Min(starts) - 1)

\* rmCmt removes the comment and nothing else, with quotes, escaped quotes and
\* `//' inside strings, on every line on which it returns.
CommentsCut ==
    \A n \in 1 .. 6 : \A line \in [1 .. n -> Symbols] :
        rmCmt(line) \in {WithoutComment(line), IndexError}
=============================================================================
