------------------------------- MODULE MCParser ------------------------------
(***************************************************************************)
(* Modules of up to three items, good and bad, that between them use every *)
(* production, and functions whose bodies are chains of operators.         *)
(***************************************************************************)
EXTENDS Parser

Good(tokens) == [tokens |-> tokens, good |-> TRUE, open |-> FALSE, chain |-> <<>>]
Bad(tokens) == [Good(tokens) EXCEPT !.good = FALSE]
Open(tokens) == [Bad(tokens) EXCEPT !.open = TRUE]
N == Name
Head0 == <<"fun", N, "(", ")", "->", "bool">>
Fun(body) == Head0 \o <<"=">> \o body

(* Every production is used by one of these.                               *)
GoodItems ==
  {Good(Head0 \o <<";">>),
   Good(<<"@", "unsafe", "@", N, "(", "string", ",", N, ",", ")", "fun", N, "[", N, ",", N, "]", "(",
          N, ":", N, ".", N, "[", "bool", "]", ",", N, ":", "(", "char type", ",", "(", ")", ")", ")",
          "->", "fun", "(", "string type", ")", "->", "(", "bool", ")", "=", "panic">>),
   Good(Fun(<<"do", "let", "mut", N, ":", "bool", "=", N, "{", N, "=", "true", "}", ";",
              "let", "(", N, ",", "number", ")", "=", N, ";",
              N, ".", "[", "number", "]", "=", "(", N, ":", N, ")", ";",
              "for", N, "in", N, "..", "number", "do", "end", ";",
              N, "->", N, "(", "[", "char", ",", "]", ")", "^", ".", N, "end">>)),
   Good(Fun(<<"case", "(", N, ",", ")",
              "|", ".", N, "(", "{", N, "=", N, "}", ")", "->", "while", "false", "do", "string", "end",
              "|", ".", N, "->", "unsafe", N, ";", "end",
              "|", "(", ")", "->", "fun", "(", N, ":", "bool", ",", N, ")", "->", N, "=", "(", ")", "end">>)),
   Good(<<"type", N, "[", N, "]", "=", "{", N, ":", N, ",", "}">>),
   Good(<<"type", N, "=", "|", N, "(", "fun", "(", ")", "->", "bool", ")", "|", N,
          "impl", "@", "unsafe">> \o Head0 \o <<"=", "number">> \o Head0 \o <<";", "end">>),
   Good(<<"import", N, ".", "(", N, "as", N, ",", N, ".", N, ",", ")">>)}

(* What is wrong in these is hit in the middle, or only complained about.  *)
BadItems ==
  {Bad(<<"fun", N, "(", ")", "bool", "=", "number">>),
   Bad(<<"fun", N, "(", N, ":", "bool", "->", "bool", "=", "fun", "(", ")", "->", "number">>),
   Bad(<<"type", N, "=", "number">>),
   Bad(<<"type", N, "=", "{", N, N, "}", "impl">> \o Head0 \o <<";", "end">>),
   Bad(Fun(<<"case", N, "|", "number", N, "end">>)),
   Bad(Fun(<<"case", N, "|", "number", "->", N>>)),
   Bad(Fun(<<"do", N, N, "end">>)),
   Bad(<<"@", "unsafe", "number">>),
   Bad(<<"@", N, "(", "number", ")">> \o Head0 \o <<";">>),
   Bad(<<";">>)}

(* And these go on into what follows.                                      *)
OpenItems ==
  {Open(Fun(<<>>)), Open(<<"type", N, "=">>), Open(<<"import", N, ".">>), Open(<<"fun">>),
   Open(Fun(<<"do", "let", N, "=", "number", ";">>)), Open(Fun(<<N, "+">>))}

(* Any two items after one another, and a good one behind any two that are *)
(* not.                                                                    *)
ItemModules ==
  LET all == GoodItems \cup BadItems \cup OpenItems
      wrong == BadItems \cup OpenItems
      last == {Good(Head0 \o <<";">>), Good(<<"@", "unsafe">> \o Fun(<<N>>))}
  IN {<<>>} \cup {<<i, j>> : i \in all, j \in all}
       \cup {<<i, j, k>> : i \in wrong, j \in wrong, k \in last}

(* Chains of up to three operators of every strength, two of the strongest *)
(* and the next, and of two with operands that have operators inside.      *)
ChainOps == {"*", "/", "+", "-", "<", "==", "and", "or", "="}
Chained(chain) ==
  <<[Good(Fun(FlattenSeq(chain))) EXCEPT !.chain = chain]>>
X == <<N>>
Operands ==
  {X, <<"(", N, "-", N, ")">>, <<N, "^", ".", N>>, <<N, "(", N, "or", N, ")">>,
   <<"do", N, "=", N, "end">>}
ChainModules ==
  {Chained(<<X, <<f>>, X, <<g>>, X, <<h>>, X>>) : f, g, h \in ChainOps}
    \cup {Chained(<<x, <<f>>, y, <<g>>, X>>) : x, y \in Operands, f, g \in {"*", "-", "="}}
    \cup {Chained(<<X, <<f>>, <<"return">>, X, <<g>>, X>>) : f, g \in ChainOps}
    \cup {Chained(<<X, <<t>>, X, <<"-">>, X>>) : t \in {"&", "bor", ">"}}
    \cup {Chained(BackIndex)}

MCModules == ItemModules \cup ChainModules
=============================================================================
