--------------------------------- MODULE Lexer ---------------------------------
(***************************************************************************)
(* The tokens (compiler/lexer.c and compiler/token.c).  A text is a        *)
(* sequence of lexemes whose characters were already grouped: a word is a  *)
(* keyword, an operator or an identifier; the other lexemes are string and *)
(* number literals.  The type of a keyword or of a lone symbol is named by *)
(* its lexeme; operators of the same precedence share a type.              *)
(***************************************************************************)
EXTENDS Sequences

Word(w) == [kind |-> "word", lexeme |-> w]
StringLiteral(s) == [kind |-> "STRING", lexeme |-> s]
NumberLiteral(n) == [kind |-> "NUMBER", lexeme |-> n]

keyword ==
  {"true", "false", "null", "object", "state", "fun", "return", "this", "if", "else",
   "while", "for", "foreach", "in", "break", "continue", "typeof", "public", "using",
   "do", "switch", "case", "default", "assert", "timeout", "is", "caller", "readonly"}

symbol == {";", ",", "?", ":", ".", "(", ")", "[", "]", "{", "}", "!", "&&", "||"}

tokentype(word) ==
  CASE word \in keyword \cup symbol                       -> word
    [] word \in {"=", "+=", "-=", "*=", "/=", "%="}       -> "ASSIGNOP"
    [] word \in {"==", "!=", "===", "!=="}                -> "EQUALITYOP"
    [] word \in {">", ">=", "<", "<="}                    -> "RELATIONALOP"
    [] word \in {"+", "-"}                                -> "ADDITIVEOP"
    [] word \in {"*", "/", "%"}                           -> "MULTIPLICATIVEOP"
    [] word \in {"++", "--"}                              -> "INCDECOP"
    [] word \in {"@Package", "@Plugin"}                   -> "ANNOTATION"
    [] OTHER                                              -> "IDENTIFIER"

(* surgescript_lexer_scan(), for all of the text.                          *)
scan(text) ==
  [i \in DOMAIN text |->
     [type |-> IF text[i].kind = "word" THEN tokentype(text[i].lexeme) ELSE text[i].kind,
      lexeme |-> text[i].lexeme]]
================================================================================
