------------------------------ MODULE MCHelpers ------------------------------
(***************************************************************************)
(* The parts of the library that run on their own: Prepvar with its        *)
(* holders, and the functions of Text and AesFrame, each applied to every  *)
(* one of the inputs below.  An input is chosen at the start, or none, and *)
(* then the holders run.                                                   *)
(***************************************************************************)
EXTENDS Prepvar, AesFrame, TLC

CONSTANTS None, \* no input
          MaxText, \* the longest text: a bound of the model
          TempSize \* of Text, 0x1000 in the code

VARIABLE input

T == INSTANCE Text

Booleans == {TRUE, FALSE}

Splits == [f : {"split"}, s : BoundedSeq({"a", ",", ";"}, MaxText),
           set : {{}, {","}, {",", ";"}}, left : Booleans]
Trims == [f : {"trim"}, s : BoundedSeq({"a", ",", ";"}, MaxText),
          set : {{}, {","}, {",", ";"}}, left : Booleans, right : Booleans]
Replaces == [f : {"replace"}, s : BoundedSeq({"a", "A"}, MaxText), old : BoundedSeq({"a", "A"}, 2),
             new : {<<>>, <<"a">>, <<"b", "a">>}, noCase : Booleans,
             start : {0, 1, MaxText}, cnt : {0, 1, 2, MaxText}]
Paths == [f : {"path"}, s : BoundedSeq({"a", "/", ".", Nul}, MaxText), ext : {<<>>, <<"a">>, <<"A">>},
          withCase : Booleans]

Inputs == Splits \cup Trims \cup Replaces \cup Paths

\* One text, or one size, or neither.
MCInit ==
  /\ Init
  /\ input \in Inputs \cup {None}
  /\ vectorSize \in IF input = None THEN 0 .. Word + 64 ELSE {0}

MCNext == input = None /\ vectorSize = 0 /\ Next /\ UNCHANGED <<input, vectorSize>>
MCSpec == MCInit /\ [][MCNext]_<<vars, input, vectorSize>>

MCSymmetry == Permutations(Holders) \cup Permutations(Blocks)

Is(f) == input # None /\ input.f = f

-----------------------------------------------------------------------------

\* Split finds the tokens between the delimiters, whatever stands at either end
\* (string.cpp:51).
SplitFindsTokens ==
  Is("split") =>
    T!Split(input.s, input.set, input.left) = T!TokensOf(input.s, input.set, input.left)

\* Replace gives way to the leftmost occurrences that do not overlap, at most cnt, and
\* leaves every other character as it was, in its case (string.cpp:124); unless the two
\* texts differ in case only and noCase is given, when it does nothing.
ReplacesLeftmost ==
  Is("replace") /\ input.old # <<>> /\ ~T!CmpNoCase(input.new, input.old, ~input.noCase) =>
    LET n == Len(input.old)
        matches == {p \in input.start .. Len(input.s) - n :
                      T!CmpNoCase(SubSeq(input.s, p + 1, p + n), input.old, ~input.noCase)}
    IN  \E chosen \in SUBSET matches :
          /\ T!IsChosen(chosen, matches, n, input.cnt)
          /\ T!Replace(input.s, input.old, input.new, input.noCase, input.start, input.cnt)
               = T!Substituted(input.s, chosen, n, input.new)

\* Trim cuts off the characters to trim at the ends it is told to, all of them and no
\* others, also when end - start + 1 wraps around (string.cpp:172).
TrimsTheEnds ==
  Is("trim") =>
    T!IsTrimmed(T!Trim(input.s, input.set, input.left, input.right),
                input.s, input.set, input.left, input.right)

\* The extension is that of the file, not of a directory on the way to it: what follows
\* the last dot of the last name (files.cpp:111).
ExtensionOfTheFile ==
  Is("path") =>
    LET slashes == {p \in T!Positions(input.s) : input.s[p + 1] = "/"}
        name == SubSeq(input.s, T!Max(slashes \cup {-1}) + 2, Len(input.s))
    IN  T!HasExtension(input.s, input.ext, input.withCase)
          <=> \E i \in DOMAIN name :
                /\ name[i] = "."
                /\ "." \notin Range(SubSeq(name, i + 1, Len(name)))
                /\ T!CmpNoCase(SubSeq(name, i + 1, Len(name)), input.ext, input.withCase)

\* CleanPath leaves no double slash and no slash at the end, and touches nothing else
\* (files.cpp:25, files.hpp:13), for what fits its buffer.  It does not say that the names
\* along the path survive, because they do not: double slashes are removed as a pair.
CleanPathSqueezes ==
  Is("path") /\ T!Fits(input.s) => T!IsSqueezed(T!Squeeze(input.s), input.s)

\* The functions on text do what their loops are for: the five statements above.
TextAgrees ==
  /\ SplitFindsTokens /\ ReplacesLeftmost /\ TrimsTheEnds
  /\ ExtensionOfTheFile /\ CleanPathSqueezes

=============================================================================
