-------------------------------- MODULE Terms --------------------------------
(***************************************************************************)
(* The texts that files are indexed and searched by: normalize and         *)
(* tokenize of internal/fileManager/helper.go, and what addSearchTerm,     *)
(* removeSearchTerm and SearchFile make of them.                           *)
(*                                                                         *)
(* A text is its words, what stands between them, and its case.  `one' is  *)
(* one blank, `many' is any other white space, `mark' is one of the        *)
(* separators _ - . / and so on, at which tokenize cuts and which          *)
(* normalize keeps.  A text of one word has gap `one', or `mark' when a    *)
(* separator stands beside it.  Texts of separators alone are left out;    *)
(* white space at the ends is trimmed everywhere.                          *)
(***************************************************************************)
EXTENDS Naturals, Sequences

CONSTANT Word

Text == [words : Seq(Word), gap : {"one", "many", "mark"},
         case : {"lower", "upper", "mixed"}]

Lower(t) == [t EXCEPT !.case = "lower"]
Upper(t) == [t EXCEPT !.case = "upper"]

normalize(t) == [words |-> t.words,
                 gap   |-> IF t.gap = "mark" THEN "mark" ELSE "one",
                 case  |-> "lower"]

\* term == "" after normalize
Blank(t) == t.words = <<>>

WordsOf(t) == {t.words[i] : i \in 1..Len(t.words)}

\* Of a file f with the texts f.terms.
HasWords(f) == \E i \in 1..Len(f.terms) : WordsOf(f.terms[i]) # {}

ShareAWord(f, q) ==
  \E i \in 1..Len(f.terms) : WordsOf(f.terms[i]) \cap WordsOf(q) # {}

\* A word alone, as tokenize returns it.
Token(w) == [words |-> <<w>>, gap |-> "one", case |-> "lower"]

tokenize(t) == [i \in 1..Len(t.words) |-> Token(t.words[i])]

\* Where the work of addSearchTerm or removeSearchTerm on the term t comes to
\* the key k: at the whole term (place 0), or at the tokens that equal k.  A
\* token that is the whole term is skipped, and a blank term is.
Places(t, k) ==
  IF k = normalize(t) /\ ~Blank(t)
  THEN {0}
  ELSE {i \in 1..Len(t.words) : tokenize(t)[i] = k}

(* A name with a suffix after `_' is a faulty variant of the definition that *)
(* follows it; nothing uses it.                                              *)

Variations_Exact(q) == {q, Lower(q), Upper(q)}

\* The keys SearchFile looks a query up under.
Variations(q) ==
  {q, Lower(q), Upper(q)} \cup {Token(w) : w \in WordsOf(q)}

=============================================================================
