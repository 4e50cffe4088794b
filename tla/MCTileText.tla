----------------------------- MODULE MCTileText -----------------------------
(***************************************************************************)
(* Two index values, views of rank 0 to 2 and one without a rank.          *)
(* MCNames: every value is the only result of its operation; MultiNames:   *)
(* both are results of one operation.                                      *)
(***************************************************************************)
EXTENDS TileText

CONSTANTS a, b,                 \* index values
          X, Y, I, J, U         \* views

MCValues == {a, b}
MCViews == {X, Y, I, J, U}
MCRankOf == [v \in MCViews |-> CASE v = X -> 1 [] v = Y -> 2 [] v = I -> 1 [] v = J -> 2
                                 [] v = U -> Unranked]
MCNames == [v \in MCValues |-> [id |-> IF v = a THEN "%a" ELSE "%b", num |-> 0]]
MultiNames == [v \in MCValues |-> [id |-> "%id", num |-> IF v = a THEN 0 ELSE 1]]
MCArgumentNames == <<[id |-> "%arg0", num |-> 0], [id |-> "%arg1", num |-> 0]>>

Operands == {<<>>, <<a>>, <<a, b>>, <<b, a>>, <<a, a>>}
Sets(D, S) == [dims : D, syms : S]
Orders(D) == [ins : D, outs : D]

\* Results that read one input each, or one that reads two.
Results(inputs) == {<<>>} \cup {<<<<p>>>> : p \in 1 .. inputs}
  \cup {<<<<p, q>>>> : p, q \in 1 .. inputs} \cup {<<<<p>>, <<q>>>> : p, q \in 1 .. inputs}
Maps(dims, syms) == {[dims |-> dims, syms |-> syms, results |-> r] : r \in Results(dims + syms)}

MCAccessArguments ==
  {[base |-> Y, map |-> m, indices |-> i, symbols |-> s, set |-> [dims |-> d, syms |-> 1],
    order |-> o, rank |-> n] :
     m \in Maps(2, 0) \cup Maps(1, 1) \cup Maps(1, 0), i \in Operands, s \in {<<>>, <<b>>},
     d \in 1 .. 2, o \in Orders(1 .. 2), n \in 1 .. 2}

\* Subscripts over two captured variables or fewer and one argument.
Subscripts(dims) ==
  {[ind |-> k, map |-> m] : k \in BOOLEAN, m \in Maps(dims, 0)}

MCIndirectArguments ==
  UNION {{[base |-> IF Len(s) = 1 THEN X ELSE Y, kinds |-> [i \in DOMAIN s |-> s[i].ind],
     maps |-> [i \in DOMAIN s |-> s[i].map], memrefs |-> m, captured |-> c,
     symbols |-> <<b>>, set |-> [dims |-> 1, syms |-> 1], order |-> [ins |-> 1, outs |-> 1],
     rank |-> 1] :
       s \in {<<x>> : x \in Subscripts(Len(c) + 1)} \cup {<<x>> : x \in Subscripts(Len(c) + 2)},
       m \in {<<>>, <<I>>, <<J>>, <<U>>}} : c \in Operands}
  \cup
  {[base |-> Y, kinds |-> <<k, TRUE>>,
    maps |-> <<[dims |-> Len(c) + 1, syms |-> y, results |-> <<<<p>>>>],
               [dims |-> Len(c) + 1, syms |-> 0, results |-> <<<<q>>, <<Len(c) + 1>>>>]>>,
    memrefs |-> m, captured |-> c, symbols |-> s, set |-> [dims |-> d, syms |-> 1],
    order |-> o, rank |-> n] :
      k \in BOOLEAN, p \in 1 .. 2, q \in 1 .. 2, y \in 0 .. 1, c \in Operands \ {<<>>},
      m \in {<<J>>, <<I, J>>, <<J, I>>}, s \in {<<>>, <<b>>}, d \in 0 .. 2,
      o \in {[ins |-> 1, outs |-> 1], [ins |-> 1, outs |-> 2], [ins |-> 2, outs |-> 2]},
      n \in 1 .. 2}

\* Ids of values, of an intermediate variable, and one that nothing defines.
Tokens == {NameOf[v] : v \in MCValues} \cup {[id |-> "%i", num |-> 0], [id |-> "%x", num |-> 0]}
TermOf(t) == [tok |-> t, sym |-> FALSE]
Terms == {<<<<TermOf(t)>>>> : t \in Tokens} \cup {<<<<TermOf(t), TermOf(u)>>>> : t, u \in Tokens}
  \cup {<<<<[tok |-> NameOf[a], sym |-> TRUE]>>>>, <<<<>>, <<TermOf(NameOf[b])>>>>}

FewTerms == {<<<<TermOf(t)>>>> : t \in Tokens} \cup
  {<<<<>>, <<TermOf(NameOf[b])>>>>, <<<<TermOf(NameOf[b]), TermOf(NameOf[a])>>>>,
   <<<<TermOf(NameOf[a]), TermOf([id |-> "%i", num |-> 0])>>>>}

AccessPrograms ==
  {[kind |-> "access", base |-> Y, terms |-> t \o u, symbols |-> s, set |-> d, order |-> o,
    type |-> y, rank |-> n] :
     t \in Terms, u \in {<<>>, <<<<TermOf(NameOf[a])>>>>}, s \in {<<>>, <<NameOf[b]>>},
     d \in {<<>>} \cup {<<e>> : e \in Sets(1 .. 2, 0 .. 1)},
     o \in {<<>>} \cup {<<e>> : e \in Orders(1 .. 2)}, y \in 1 .. 2, n \in 1 .. 2}

IndirectPrograms ==
  {[kind |-> "indirect", vars |-> [k \in 1 .. v |-> [id |-> "%i", num |-> 0]], base |-> Y,
    subs |-> <<[memref |-> m, terms |-> t], [memref |-> w, terms |-> u]>>,
    symbols |-> s, set |-> d, order |-> <<[ins |-> 1, outs |-> 1]>>,
    types |-> y, rank |-> 1] :
     v \in 0 .. 2, m \in {<<>>, <<I>>}, w \in {<<>>, <<J>>}, t \in Terms, u \in FewTerms,
     s \in {<<>>, <<NameOf[b]>>},
     d \in {<<>>, <<[dims |-> 1, syms |-> 0]>>, <<[dims |-> 1, syms |-> 1]>>},
     y \in {<<2>>, <<2, 1>>, <<2, 2>>, <<2, 1, 2>>}}

MCPrograms == AccessPrograms \cup IndirectPrograms
=============================================================================
