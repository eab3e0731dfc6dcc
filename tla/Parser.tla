------------------------------- MODULE Parser --------------------------------
(***************************************************************************)
(* Parsing a module (parse_module, src/parsing/parse.rs): one item after   *)
(* another, and after a mistake tokens are skipped until one that may      *)
(* begin an item.                                                          *)
(***************************************************************************)
EXTENDS Grammar

CONSTANT Modules   \* modules: what is written in them, item by item

(* `text` has for every item its tokens, whether it is one of the language,*)
(* whether what is missing is at its end, and, of a function whose body is *)
(* a chain of operands and operators, that chain.                          *)
VARIABLES
  text,       \* the module that is parsed
  rest,       \* the tokens that are left
  items,      \* the items found, with the tokens that were left before them
  complaints, \* how many messages there are
  recovery,   \* whether tokens are being skipped
  result      \* "none", "module" or "error"

parserVars == <<text, rest, items, complaints, recovery, result>>

Tokens(module) == FlattenSeq([i \in DOMAIN module |-> module[i].tokens])
BeginsItem == {"fun", "type", "@", "import"}

InitParser ==
  /\ text \in Modules
  /\ rest = Tokens(text) /\ items = <<>>
  /\ complaints = 0 /\ recovery = FALSE /\ result = "none"

(* An item, or the message of why it is none, with the tokens up to the    *)
(* one that did not fit used up.                                           *)
Item ==
  /\ result = "none" /\ rest # <<>> /\ ~recovery
  /\ \E r \in {ParseItem(rest)} :
     /\ rest' = r.rest /\ complaints' = complaints + r.told
     /\ items' = IF r.ok THEN Append(items, [before |-> Len(rest), parts |-> r.parts]) ELSE items
     /\ recovery' = ~r.ok
  /\ UNCHANGED <<text, result>>

(* One token is skipped before the next is looked at.                      *)
ThisOne == BeginsItem \cap {Head(rest)}         \* mistake: looked at, not skipped
NextOne == BeginsItem \cap {Head(Tail(rest))}
Recovered == Len(rest) > 1 /\ NextOne # {}
Skip ==
  /\ result = "none" /\ rest # <<>> /\ recovery
  /\ rest' = Tail(rest)
  /\ recovery' = ~Recovered
  /\ UNCHANGED <<text, items, complaints, result>>

(* A module in which anything had to be said is not a module.              *)
EndOfFile ==
  /\ result = "none" /\ rest = <<>>
  /\ result' = IF complaints > 0 THEN "error" ELSE "module"
  /\ UNCHANGED <<text, rest, items, complaints, recovery>>

ParseStep == Item \/ Skip \/ EndOfFile
ParserStopped == result # "none" /\ UNCHANGED parserVars
NextParser == ParseStep \/ ParserStopped
SpecParser == InitParser /\ [][NextParser]_parserVars

(***************************************************************************)
(* Properties.                                                             *)
(***************************************************************************)

(* How many tokens are left when item i begins, and what it parses to when *)
(* it is all there is.                                                     *)
Before(i) == Len(Tokens(SubSeq(text, i, Len(text))))
Alone(i) == ParseItem(text[i].tokens)

(* parse_module: a module is one exactly if all its items are, each parsed *)
(* as if it stood alone.  A mistake spoils no other item: every good one   *)
(* is found, but for one right behind an item that stops too early, the    *)
(* first token of which is taken for the mistake.                          *)
MistakesStayLocal ==
  result # "none" =>
    /\ result = "module" <=> \A i \in DOMAIN text : text[i].good
    /\ \A i \in DOMAIN text :
         text[i].good /\ (i = 1 \/ ~text[i - 1].open) =>
           /\ Alone(i).ok /\ Alone(i).rest = <<>> /\ Alone(i).told = 0
           /\ [before |-> Before(i), parts |-> Alone(i).parts] \in ToSet(items)
    /\ result = "module" => Len(items) = Len(text)

(* Whether a tree is one of a chain of operands and operators: split at an  *)
(* assignment, if there is one; otherwise at one of the operators that     *)
(* bind least, whichever, for strength says nothing of equals.  An operand *)
(* that begins with `return` goes on to the end of the chain.              *)
Positions(chain, t) == {k \in DOMAIN chain : chain[k] = <<t>>}
Operators(chain) == {k \in DOMAIN chain : chain[k] # <<>> /\ IsBinary(chain[k][1])}
Weakest(chain, ops) ==
  {k \in ops : \A j \in ops : BindingPower[chain[k][1]] <= BindingPower[chain[j][1]]}
RECURSIVE IsTreeOf(_, _)
IsTreeOf(tree, chain) ==
  LET returns == Positions(chain, "return")
      end == IF returns = {} THEN Len(chain) + 1 ELSE Min(returns)
      assigns == {k \in Positions(chain, "=") : k < end}
      ops == {k \in Operators(chain) : k < end}
      splits == IF assigns # {} THEN assigns ELSE Weakest(chain, ops)
  IN CASE splits # {} -> \E k \in splits :
            /\ tree.kind = chain[k][1] /\ Len(tree.parts) = 2
            /\ IsTreeOf(tree.parts[1], SubSeq(chain, 1, k - 1))
            /\ IsTreeOf(tree.parts[2], SubSeq(chain, k + 1, Len(chain)))
       [] splits = {} /\ end = 1 ->
            tree.kind = "return" /\ Len(tree.parts) = 1 /\ IsTreeOf(tree.parts[1], Tail(chain))
       [] OTHER -> tree = Parse("expr", StartOf(chain[1])).parts[1]
Body(i) == Last(Last(items[i].parts).parts)

(* parse_expr_binding_power and parse_assign: no operator takes an operand *)
(* from a stronger one beside it, whatever the operands are, and the       *)
(* expression is all of the chain in its order.                            *)
BindsByStrength ==
  result = "module" =>
    \A i \in DOMAIN text : text[i].chain # <<>> => IsTreeOf(Body(i), text[i].chain)

(* What a tree of subtractions comes to, its operands having these values. *)
RECURSIVE OperandCount(_)
OperandCount(tree) ==
  IF tree.kind = "-" THEN OperandCount(tree.parts[1]) + OperandCount(tree.parts[2]) ELSE 1
RECURSIVE Difference(_, _)
Difference(tree, values) ==
  LET n == OperandCount(tree.parts[1])
  IN IF tree.kind # "-" THEN values[1]
     ELSE Difference(tree.parts[1], SubSeq(values, 1, n))
            - Difference(tree.parts[2], SubSeq(values, n + 1, Len(values)))

(* std/arrays.kli:96: `let back_index = len - i - 1;` is the index as far  *)
(* from the end of an array as i is from its start, for the i of the loop  *)
(* around it, 0..len/2.                                                    *)
BackIndex == <<<<Name>>, <<"-">>, <<Name>>, <<"-">>, <<"number">>>>
ReverseSwapsOpposites ==
  result = "module" =>
    \A k \in DOMAIN text : text[k].chain = BackIndex =>
      \A len \in 2 .. 4 : \A i \in 0 .. (len \div 2) - 1 :
        LET backIndex == Difference(Body(k), <<len, i, 1>>)
        IN backIndex \in 0 .. len - 1 /\ i + backIndex = len - 1
=============================================================================
