----------------------------- MODULE RegexText -----------------------------
(***************************************************************************)
(* The texts the translator writes: sequences of pieces, a piece being a   *)
(* symbol set, one of "(", ")", "|" and "*", or the word "empty" that      *)
(* labels a transition which reads nothing.  Concatenating texts is all    *)
(* the translator does; what a text denotes is the reader's business, and  *)
(* is defined here so that it can be compared with the automaton.          *)
(***************************************************************************)
EXTENDS Naturals, Sequences, SequencesExt

CONSTANTS
  MaxWord,    \* words are compared up to this length
  PieceLen    \* the number of characters of every piece

Empty == <<"empty">>

TextLen(text) == FoldLeft(LAMBDA n, piece : n + PieceLen[piece], 0, text)

HasBar(text) == Contains(text, "|")

Parens(text) == <<"(">> \o text \o <<")">>

(* mutant: the parentheses are forgotten *)
GuardedBare(text) == text

(* a text that is put next to another one: an alternation gets parentheses *)
Guarded(text) == IF HasBar(text) THEN Parens(text) ELSE text

-----------------------------------------------------------------------------
(* The words a text denotes. *)
Cat(A, B) == {w \in {u \o v : u \in A, v \in B} : Len(w) <= MaxWord}

RECURSIVE Star(_, _)
Star(A, soFar) ==
  LET more == soFar \union Cat(soFar, A)
  IN  IF more = soFar THEN soFar ELSE Star(A, more)

(* the parenthesis that closes the one at the head of text *)
Closing(text) ==
  LET open(i) == FoldLeft(LAMBDA n, c : IF c = "(" THEN n + 1
                                        ELSE IF c = ")" THEN n - 1 ELSE n,
                          0, SubSeq(text, 1, i))
  IN  CHOOSE i \in 2..Len(text) : open(i) = 0 /\ \A j \in 2..(i - 1) : open(j) > 0

RECURSIVE Alternation(_), Branch(_)

(* alternatives of the first factor, then what follows it *)
Branch(text) ==
  IF text = <<>> \/ Head(text) = "|" THEN [words |-> {<<>>}, rest |-> text]
  ELSE LET group   == Head(text) = "("
           last    == IF group THEN Closing(text) ELSE 1
           factor  == IF group THEN Alternation(SubSeq(text, 2, last - 1))
                                ELSE {<<Head(text)>>}
           starred == last < Len(text) /\ text[last + 1] = "*"
           after   == SubSeq(text, IF starred THEN last + 2 ELSE last + 1, Len(text))
           tail    == Branch(after)
       IN  [words |-> Cat(IF starred THEN Star(factor, {<<>>}) ELSE factor, tail.words),
            rest  |-> tail.rest]

Alternation(text) ==
  LET b == Branch(text)
  IN  IF b.rest = <<>> THEN b.words ELSE b.words \union Alternation(Tail(b.rest))

(* a label: the word "empty" alone reads nothing *)
Words(text) == IF text = Empty THEN {<<>>} ELSE Alternation(text)
=============================================================================
