------------------------------- MODULE Reader -------------------------------
(***************************************************************************)
(* The front of the compiler (src/Parser/tokenizer.cpp and parser.cpp):    *)
(* the text of a program becomes tokens, the tokens an expression.         *)
(*                                                                         *)
(* A text is a sequence of pieces: parentheses, white space, and words,    *)
(* each with the atom that atomize makes of it.  A token is a sequence of  *)
(* pieces that tokenize has put together.                                  *)
(***************************************************************************)
EXTENDS Integers, SequencesExt

(* Expressions.  "primed" is the symbol v with an apostrophe behind it,    *)
(* "text" a symbol that begins or ends with a quotation mark.  There are   *)
(* no floats here, and no number that stoi cannot represent.               *)
Symbol(name) == [kind |-> "symbol", v |-> name]
Primed(name) == [kind |-> "primed", v |-> name]
Quoted(words) == [kind |-> "text", v |-> words]
Number(i) == [kind |-> "int", v |-> i]
List(items) == [kind |-> "list", v |-> items]

IsSymbol(e) == e.kind \in {"symbol", "primed", "text"}

(* symbolValue *)
NameOf(e) == IF e.kind = "primed" THEN e.v \o "'" ELSE e.v

(* The pieces of a text. *)
Open == [kind |-> "open", atom |-> Symbol("(")]
Close == [kind |-> "close", atom |-> Symbol(")")]
Space == [kind |-> "space", atom |-> Symbol(" ")]
Word(atom) == [kind |-> "word", atom |-> atom]

------------------------------------------------------------------------------
(* A parenthesis begins a token, and a word does that follows space or an  *)
(* opening parenthesis.  Nothing ends a token that is a closing            *)
(* parenthesis: a word that follows it directly is added to it.            *)
tokenize(text) ==
    LET Begins(i) ==
            \/ text[i].kind \in {"open", "close"}
            \/ text[i].kind = "word" /\ (i = 1 \/ text[i - 1].kind \in {"open", "space"})
        first == SelectSeq([i \in DOMAIN text |-> i], Begins)
        LastOf(i) ==
            Max({k \in i .. Len(text) :
                    \A j \in i + 1 .. k : text[j].kind = "word" /\ ~ Begins(j)})
    IN [t \in DOMAIN first |-> SubSeq(text, first[t], LastOf(first[t]))]

(* A word that was added to a parenthesis is a symbol of no other use, and *)
(* so is a number: stoi reads none behind a parenthesis.                   *)
atomize(token) == IF Len(token) = 1 THEN token[1].atom ELSE Symbol(") and a word")

IsToken(token, kind) == Len(token) = 1 /\ token[1].kind = kind

(* The result of reading: an expression and the tokens behind it, or ok is *)
(* FALSE where the code throws.  To look at the first of no tokens is      *)
(* undefined, but whatever is found there, the next check throws.          *)
Read(e, rest) == [ok |-> TRUE, e |-> e, rest |-> rest]
Unreadable == [ok |-> FALSE, e |-> List(<<>>), rest |-> <<>>]

RECURSIVE readFromTokens(_), readList(_, _)

readFromTokens(tokens) ==
    CASE tokens = <<>> -> Unreadable
      [] tokens # <<>> /\ IsToken(Head(tokens), "open") -> readList(<<>>, Tail(tokens))
      [] tokens # <<>> /\ IsToken(Head(tokens), "close") -> Unreadable
      [] OTHER -> Read(atomize(Head(tokens)), Tail(tokens))

(* The rest of a list whose first elements have been read. *)
readList(items, tokens) ==
    CASE tokens = <<>> -> Unreadable
      [] tokens # <<>> /\ IsToken(Head(tokens), "close") -> Read(List(items), Tail(tokens))
      [] OTHER -> LET item == readFromTokens(tokens)
                  IN IF item.ok THEN readList(Append(items, item.e), item.rest) ELSE item

(* parseString: the first expression of the text.  What follows it is not  *)
(* looked at.                                                              *)
parseString(text) == readFromTokens(tokenize(text))
==============================================================================
