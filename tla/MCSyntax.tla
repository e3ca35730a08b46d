------------------------------ MODULE MCSyntax -------------------------------
\* Families of texts for the tokenizer and the parser.
EXTENDS Syntax

Family(start, pieces, max, program) ==
    [start |-> start, pieces |-> pieces, max |-> max, program |-> program]

\* any characters, in any order: names, keywords, numbers, literals, comments, symbols
Symbols  == Family("", {"a", "if", "0", "7", "$", "\"", "\\", "/", "*", "=", "!", "|", " ", "\n", "#"}, 3, FALSE)
Comments == Family("a/", {"/", "*", "\n", "b", " "}, 5, FALSE)
Quotes   == Family("\"", {"\"", "\\", "n", "1"}, 5, FALSE)

\* declarations and calls; parameter lists; statements; expressions
TopLevel   == Family("", {"var ", "x", ";", "(", ")", "function f(){", "}"}, 7, TRUE)
Parameters == Family("function f(", {"a", ",", ")", "{", "}", "1"}, 6, TRUE)
Bodies     == Family("function f(){", {"var x;", "x;", "if(x){", "}", "else{", "while(x){", "return "}, 5, TRUE)
Operations == Family("function f(){return ",
                     {"x=", "x||", "x&&", "x!=", "x<=", "x+", "x*", "!", "typeof ", "x;}", ">"}, 4, TRUE)
Accesses   == Family("function f(){", {"x", "=", "(", ")", "[", "]", ".y", "{}", "$e", ",", ";}"}, 6, TRUE)
Divisions  == Family("function f(){x=", {"~", "~~(", "x", "/", "*", ")", ";}"}, 7, TRUE)

AllFamilies    == {Symbols, Comments, Quotes, TopLevel, Parameters, Bodies, Operations, Accesses, Divisions}
EscapeFamilies == {Family("\"", {"\\n", "a", "\""}, 5, FALSE)}
==============================================================================
