-------------------------------- MODULE Text --------------------------------
(***************************************************************************)
(* The functions on text of string/string.cpp and files/files.cpp, and for *)
(* each what its result is, said without the loop that computes it.        *)
(*                                                                         *)
(* A text is a sequence of characters, a character a string of one letter. *)
(* Positions are counted from 0, as in the code: the character at p is     *)
(* s[p + 1].  npos is left to the sets of positions that it stands for.    *)
(***************************************************************************)
EXTENDS Integers, SequencesExt, FiniteSetsExt

CONSTANTS
  Nul,     \* the character that ends a C string
  TempSize \* the size of the buffer CleanPath writes to, 0x1000 in the code

\* The characters from one position up to another, that one not included.  Like
\* substr, it stops at the end of the text.
Between(s, from, to) == SubSeq(s, from + 1, Min({to, Len(s)}))
Positions(s) == 0 .. Len(s) - 1

\* ::tolower; the one letter in capitals that inputs use stands for all of them.
Lower(s) == [i \in DOMAIN s |-> IF s[i] = "A" THEN "a" ELSE s[i]]

CmpNoCase(first, second, withCase) ==
  IF withCase THEN first = second ELSE Lower(first) = Lower(second)

-----------------------------------------------------------------------------
(* Split: the tokens between delimiters, the empty ones as well unless     *)
(* noEmpty.                                                                *)

Split(input, delimiters, noEmpty) ==
  LET RECURSIVE Tokens(_)
      Tokens(pos) ==
        LET found == {p \in pos .. Len(input) - 1 : input[p + 1] \in delimiters}
        IN  IF pos >= Len(input) THEN <<>>
            ELSE IF found = {} THEN <<Between(input, pos, Len(input))>>
            ELSE (IF Min(found) = pos /\ noEmpty THEN <<>> ELSE <<Between(input, pos, Min(found))>>)
                   \o Tokens(Min(found) + 1)
  IN  Tokens(0)

\* The k-th token is what lies between the k-th and the next of the cuts, which are the
\* delimiters and both ends of the text, and nothing follows a delimiter at the end.
TokensOf(input, delimiters, noEmpty) ==
  LET cuts == SetToSortSeq({-1, Len(input)}
                             \cup {p \in Positions(input) : input[p + 1] \in delimiters}, <)
      all == [k \in 1 .. Len(cuts) - 1 |-> Between(input, cuts[k] + 1, cuts[k + 1])]
      kept == IF Last(all) = <<>> THEN Front(all) ELSE all
  IN  IF noEmpty THEN SelectSeq(kept, LAMBDA t : t # <<>>) ELSE kept

-----------------------------------------------------------------------------
(* Replace: cnt occurrences of oldstr from start on, letters in capitals   *)
(* taken for small ones if noCase.                                         *)

MatchesAt(s, t, p) == Between(s, p, p + Len(t)) = t

\* Where the search goes on.
AfterOne(p, t) == p + 1
After(p, t) == p + Len(t)

Replace(original, oldstr, newstr, noCase, start, cnt) ==
  LET org == IF noCase THEN Lower(original) ELSE original
      olds == IF noCase THEN Lower(oldstr) ELSE oldstr
      RECURSIVE From(_, _)
      From(oldpos, left) ==
        LET found == {p \in oldpos .. Len(org) - Len(olds) : MatchesAt(org, olds, p)}
        IN  IF left = 0 \/ found = {} THEN Between(original, oldpos, Len(original))
            ELSE Between(original, oldpos, Min(found)) \o newstr
                   \o From(After(Min(found), olds), left - 1)
  IN  IF \/ cnt = 0 \/ oldstr = <<>> \/ start >= Len(original)
         \/ CmpNoCase(newstr, oldstr, ~noCase)
      THEN original
      ELSE Between(original, 0, start) \o From(start, cnt)

\* The occurrences that give way: of those from start on, the first cnt that do not
\* overlap an earlier one that gives way.
IsChosen(chosen, matches, length, cnt) ==
  /\ chosen \subseteq matches /\ Cardinality(chosen) <= cnt
  /\ \A p, q \in chosen : p < q => p + length <= q
  /\ \A m \in matches \ chosen :
       \/ \E p \in chosen : p < m /\ m < p + length
       \/ Cardinality(chosen) = cnt /\ \A p \in chosen : p < m

\* The text with newstr for each of them and every other character as it was.
Substituted(original, chosen, length, newstr) ==
  FlattenSeq([i \in DOMAIN original |->
    IF i - 1 \in chosen THEN newstr
    ELSE IF \E p \in chosen : p < i - 1 /\ i - 1 < p + length THEN <<>>
    ELSE <<original[i]>>])

-----------------------------------------------------------------------------
(* Trim.  end - start + 1 wraps around to 0 when there is nothing that is  *)
(* not to be trimmed, which leaves nothing as well.                        *)

Trim(original, charsToTrim, trimLeft, trimRight) ==
  LET kept == {p \in Positions(original) : original[p + 1] \notin charsToTrim}
      start == IF trimLeft THEN Min(kept) ELSE 0
      end == IF trimRight THEN Max(kept) ELSE Len(original)
  IN  IF charsToTrim = {} THEN original
      ELSE IF kept = {} /\ (trimLeft \/ trimRight) THEN <<>>
      ELSE Between(original, start, end + 1)

\* What is left and what was cut off: only characters to trim, and all of those.
IsTrimmed(result, original, charsToTrim, trimLeft, trimRight) ==
  \E l \in 0 .. Len(original) :
    LET r == l + Len(result)
    IN  /\ r <= Len(original) /\ result = Between(original, l, r)
        /\ \A p \in Positions(original) \ (l .. r - 1) : original[p + 1] \in charsToTrim
        /\ IF trimLeft THEN result # <<>> => Head(result) \notin charsToTrim ELSE l = 0
        /\ IF trimRight THEN result # <<>> => Last(result) \notin charsToTrim
           ELSE r = Len(original) \/ result = <<>>

-----------------------------------------------------------------------------
(* HasExtension and CleanPath.                                             *)

HasExtension(fileName, extension, caseSensitive) ==
  LET dots == {p \in Positions(fileName) : fileName[p + 1] = "."}
      slashes == {p \in Positions(fileName) : fileName[p + 1] = "/"}
  IN  /\ dots # {}
      /\ \A p \in slashes : p < Max(dots)
      /\ CmpNoCase(extension, Between(fileName, Max(dots) + 1, Len(fileName)), caseSensitive)

\* The loop of CleanPath, before realpath: it ends at a NUL, and a / that is followed by
\* another, or by the end of the string, is left out together with what follows it.
Squeeze(input) ==
  LET RECURSIVE From(_)
      From(i) ==
        IF i > Len(input) \/ input[i] = Nul THEN <<>>
        ELSE IF input[i] = "/" /\ (i = Len(input) \/ input[i + 1] = "/") THEN From(i + 2)
        ELSE <<input[i]>> \o From(i + 1)
  IN  From(1)

\* Whether the buffer holds what the loop writes, with the NUL behind it.  Nothing in
\* the code asks: what becomes of a longer path is undefined.
Fits(input) == Len(Squeeze(input)) < TempSize

\* What is left has no two slashes in a row and none at its end, unless a NUL cut it
\* there; it is the text up to the NUL without some of its slashes, and all of it if
\* there was no slash to remove.
IsSqueezed(result, input) ==
  LET nuls == {p \in Positions(input) : input[p + 1] = Nul}
      text == IF nuls = {} THEN input ELSE Between(input, 0, Min(nuls))
      slash == {p \in Positions(text) : text[p + 1] = "/"}
      NotSlash(c) == c # "/"
  IN  /\ \A i \in 2 .. Len(result) : result[i - 1] = "/" => result[i] # "/"
      /\ nuls = {} /\ result # <<>> => Last(result) # "/"
      /\ SelectSeq(result, NotSlash) = SelectSeq(text, NotSlash)
      /\ (\A p \in slash : p + 1 \notin slash /\ p # Len(input) - 1) => result = text

=============================================================================
