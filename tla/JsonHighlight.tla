---------------------------- MODULE JsonHighlight ----------------------------
(***************************************************************************)
(* The scanner that colours a tool call's input (lib/json-highlight.ts):   *)
(* tokenizeJson walks the pretty-printed text once and cuts it into keys,  *)
(* strings, numbers, literals and punctuation.                             *)
(*                                                                         *)
(* The text is a sequence of characters, of which one stands for each      *)
(* class the scanner tells apart; a literal is one character.  It is made  *)
(* of runs that know what they are and so say what the scanner ought to    *)
(* find.                                                                   *)
(***************************************************************************)
EXTENDS Naturals, Sequences, FiniteSets, SequencesExt

CONSTANT MaxString    \* bound: characters of a string, an escape counting as one

VARIABLES
    value,        \* what is printed
    i,            \* characters scanned
    tokens

vars == <<value, i, tokens>>

Quote == "q"
Backslash == "b"
Digit == "d"
Exponent == "e"
Literals == {"true", "null"}

-----------------------------------------------------------------------------
(* JSON.stringify(value, null, 2), as runs that know their kind.            *)
Run(text, kind) == [text |-> text, kind |-> kind]
Punct(text) == Run(text, "punctuation")

(* What may stand in a string: a letter, a digit, a literal's letters, a    *)
(* brace or colon, and an escaped quote or backslash.                       *)
Escaped == {<<"x">>, <<Digit>>, <<"true">>, <<":">>, <<Backslash, Quote>>,
            <<Backslash, Backslash>>}
Contents == UNION {[1..n -> Escaped] : n \in 0..MaxString}
Quoted(content) == <<Quote>> \o FlattenSeq(content) \o <<Quote>>

Scalars == {Run(Quoted(c), "string") : c \in Contents}
           \cup {Run(<<Digit>>, "number"), Run(<<Digit, Exponent, Digit>>, "number")}
           \cup {Run(<<l>>, IF l = "null" THEN "null" ELSE "boolean") : l \in Literals}

Member(content, runs, last) ==
    <<Run(Quoted(content), "key"), Punct(<<":", " ">>)>> \o runs
      \o <<Punct(IF last THEN <<"n", "}">> ELSE <<",", "n", " ">>)>>

Scalar(s) == <<s>>
Array(s, t) == <<Punct(<<"[", "n", " ">>), s, Punct(<<",", "n", " ">>), t, Punct(<<"n", "]">>)>>
Object(k, s, l, runs) == <<Punct(<<"{", "n", " ">>)>> \o Member(k, <<s>>, FALSE)
                          \o Member(l, runs, TRUE)

(* The values to print: scalars, arrays of two, and objects whose second    *)
(* member is an array or a scalar.                                          *)
Few == {Run(<<Quote, Backslash, Backslash, Quote>>, "string"), Run(<<Quote, ":", Quote>>, "string"),
        Run(<<Digit, Exponent, Digit>>, "number"), Run(<<"null">>, "null")}

Shapes == {Scalar(s) : s \in Scalars}
          \cup {Array(s, t) : s \in Scalars, t \in Few}
          \cup {Object(k, s, <<e>>, runs) :
                  k \in Contents, s \in Few, e \in {<<Backslash, Quote>>, <<":">>},
                  runs \in {Scalar(t) : t \in Few} \cup {Array(t, u) : t, u \in Few}}

(* Runs of punctuation that meet are one run to the scanner.                *)
Join(runs) == FoldLeft(LAMBDA acc, r :
    IF acc # <<>> /\ Last(acc).kind = "punctuation" /\ r.kind = "punctuation"
    THEN Append(Front(acc), Punct(Last(acc).text \o r.text)) ELSE Append(acc, r), <<>>, runs)

json == FlattenSeq([n \in DOMAIN value |-> value[n].text])
At(n) == IF n \in DOMAIN json THEN json[n] ELSE "end"

-----------------------------------------------------------------------------
(* Each end is the number of characters up to and with the run's last one;  *)
(* a run starts at character from.                                          *)
FirstFrom(n, stop(_)) == CHOOSE m \in n..(Len(json) + 1) :
    (m = Len(json) + 1 \/ stop(m)) /\ \A k \in n..(m - 1) : ~stop(k)

(* Mutant: backslashes are like any other character.                        *)
endAtQuote(from) == FirstFrom(from + 1, LAMBDA m : At(m) = Quote)

(* endOfString: the next quote that no backslash escapes.                   *)
endOfString(from) ==
    LET escaped[m \in from..(Len(json) + 1)] ==
            m > from + 1 /\ At(m - 1) = Backslash /\ ~escaped[m - 1]
        end == FirstFrom(from + 1, LAMBDA m : At(m) = Quote /\ ~escaped[m])
    IN  IF end > Len(json) THEN Len(json) ELSE end

(* isKey: the next character that is no blank is a colon.                   *)
isKey(end) == At(FirstFrom(end + 1, LAMBDA m : At(m) \notin {" ", "n"})) = ":"

startsValue(n) == At(n) \in {Digit} \cup Literals

endOfPunctuation(from) ==
    FirstFrom(from + 1, LAMBDA m : At(m) = Quote \/ startsValue(m)) - 1

endOfNumber(from) == FirstFrom(from + 1, LAMBDA m : At(m) \notin {Digit, Exponent}) - 1

literalAt(from) == Run(<<At(from)>>, IF At(from) = "null" THEN "null" ELSE "boolean")

(* readToken.                                                               *)
readToken(from) ==
    CASE At(from) = Quote ->
           Run(SubSeq(json, from, endOfString(from)),
               IF isKey(endOfString(from)) THEN "key" ELSE "string")
      [] At(from) = Digit -> Run(SubSeq(json, from, endOfNumber(from)), "number")
      [] At(from) \in Literals -> literalAt(from)
      [] OTHER -> Punct(SubSeq(json, from, endOfPunctuation(from)))

Init == value \in Shapes /\ i = 0 /\ tokens = <<>>

(* One pass of tokenizeJson's loop.                                         *)
Token ==
    /\ i < Len(json)
    /\ tokens' = Append(tokens, readToken(i + 1))
    /\ i' = i + Len(readToken(i + 1).text)
    /\ UNCHANGED value

Spec == Init /\ [][Token]_vars

-----------------------------------------------------------------------------
(* "Concatenating every token's `value` reproduces the original             *)
(* `JSON.stringify` output exactly", in the right colours: whatever a       *)
(* string holds (escaped quotes, colons, digits, literals), the tokens are  *)
(* the runs that were printed, keys as keys and strings as strings.         *)
TokensAreRuns == IsPrefix(tokens, Join(value))
=============================================================================
