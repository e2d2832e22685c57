---------------------------- MODULE PairingCode ----------------------------
(***************************************************************************)
(* Pairing codes as they are written and typed (src/pairing.go).  A text   *)
(* is a sequence of characters.  The codes of the module's instance are    *)
(* shorter than the code's five groups of five; normalizePairing looks at  *)
(* no length.                                                              *)
(***************************************************************************)
EXTENDS Naturals, Sequences, SequencesExt

(* The characters that the model tells apart: the letters of the prefix,   *)
(* digits that are confused with letters, those letters, and separators.   *)
Uppercase == [m |-> "M", c |-> "C", p |-> "P", o |-> "O", i |-> "I", l |-> "L"]
Lowercase == [M |-> "m", C |-> "c", P |-> "p", O |-> "o", I |-> "i", L |-> "l"]
Confusable == [o |-> "0", i |-> "1", l |-> "1"]
Separators == {"-", " "}

Replaced(ch, table) == IF ch \in DOMAIN table THEN table[ch] ELSE ch

Translate(text, table) == [i \in DOMAIN text |-> Replaced(text[i], table)]

Strip(text) ==
    FlattenSeq([i \in DOMAIN text |-> IF text[i] \in Separators THEN <<>> ELSE <<text[i]>>])

TrimPrefix(text, prefix) ==
    IF IsPrefix(prefix, text) THEN SubSeq(text, Len(prefix) + 1, Len(text)) ELSE text

PairingPrefix == <<"m", "c", "p", "-">>

(* What stands between the hyphens of a code: Crockford's alphabet has no  *)
(* lower case and none of the confusable letters.                          *)
Digits == STRING \ (Separators \cup DOMAIN Uppercase \cup {"O", "I", "L"})

(* generatePairingCode: the prefix and groups of base-32 digits. *)
WrittenCode(groups) ==
    PairingPrefix \o FoldLeft(LAMBDA text, g : text \o <<"-">> \o g, groups[1], Tail(groups))

(* Mutation of NormalizePairing: the prefix is cut with its hyphen, before *)
(* separators are removed.                                                 *)
NormalizeEarly(text) ==
    Translate(Translate(Strip(TrimPrefix(Translate(text, Lowercase), PairingPrefix)),
                        Confusable), Uppercase)

(* normalizePairing: lower case, no separators, no prefix, no confusable   *)
(* letters, upper case - in this order.                                    *)
NormalizePairing(text) ==
    Translate(Translate(TrimPrefix(Strip(Translate(text, Lowercase)), Strip(PairingPrefix)),
                        Confusable), Uppercase)

(* constantTimeEqualPairing *)
EqualPairing(normalized, stored) == normalized = NormalizePairing(stored)

-----------------------------------------------------------------------------
(* How people type a code: with its prefix or without, in either case, with*)
(* letters that look like its digits, and with anything between the groups.*)
PrefixesTyped == {<<>>, PairingPrefix, <<" ", "M", "C", "P">>}

Handwritings ==
    {<<>>, Lowercase, [ch \in {"0", "1"} |-> IF ch = "0" THEN "O" ELSE "I"],
     [ch \in DOMAIN Lowercase \cup {"0", "1"} |->
         IF ch = "0" THEN "o" ELSE IF ch = "1" THEN "l" ELSE Lowercase[ch]]}

Habits ==
    [prefix : PrefixesTyped, hand : Handwritings, between : {<<>>, <<"-">>, <<" ">>}]

Body(code) == SubSeq(code, Len(PairingPrefix) + 1, Len(code))

Spelling(code, habit) ==
    habit.prefix \o FlattenSeq(
        [i \in DOMAIN Body(code) |->
            IF Body(code)[i] = "-" THEN habit.between
            ELSE <<Replaced(Body(code)[i], habit.hand)>>])

(* A code whose digits begin like the prefix is cut short if typed without.*)
BeginsLikePrefix(code) == IsPrefix(<<"M", "C", "P">>, Strip(Body(code)))
=============================================================================
