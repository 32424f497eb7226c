-------------------------- MODULE MCAssemblerLayout --------------------------
(* Small programs: a text section of data, alignments, branches and          *)
(* differences in every order, and a debug section that measures the text.   *)
(* Four bytes stand for 128: branches reach -4..3, and ULEB128 takes two     *)
(* bytes from 4 on.                                                          *)
EXTENDS AssemblerLayout, TLC

MCInReach(d) == d \in -4..3
MCWidth(code, d) ==
  CASE code = "uleb" -> IF d < 4 THEN 1 ELSE IF d < 16 THEN 2 ELSE 3
    [] code = "frame" -> IF d = 0 THEN 0 ELSE IF d < 2 THEN 1
                         ELSE IF d < 8 THEN 2 ELSE 3

Symbol(i) == [fragment |-> i, offset |-> 0]
Data(n) == [kind |-> "data", size |-> n]
Align(n) == [kind |-> "align", alignment |-> n, max |-> n]
Org(n) == [kind |-> "org", to |-> n]
Branch(t) == [kind |-> "branch", target |-> t]
Delta(code, i, j) ==
  [kind |-> "delta", code |-> code, from |-> Symbol(i), to |-> Symbol(j)]

(* The debug section behind the text, or in front of it: its fragments are   *)
(* numbered behind those of the text, and renumbered here.                   *)
Renumbered(f, n, m) ==
  LET To(i) == IF i <= n THEN i + m ELSE i - n
      Moved(s) == Symbol(To(s.fragment))
  IN CASE f.kind = "branch" /\ f.target # NoSymbol ->
            [f EXCEPT !.target = Moved(@)]
       [] f.kind = "delta" -> [f EXCEPT !.from = Moved(@), !.to = Moved(@)]
       [] OTHER -> f
InOrder(first, second) ==
  [i \in 1..Len(first) + Len(second) |->
     IF i <= Len(first) THEN first[i] @@ [section |-> 1]
     ELSE second[i - Len(first)] @@ [section |-> 2]]
Placed(text, debug, debugFirst) ==
  LET n == Len(text)
      m == Len(debug)
      Moved(fs) == [i \in DOMAIN fs |-> Renumbered(fs[i], n, m)]
  IN IF debugFirst THEN InOrder(Moved(debug), Moved(text))
     ELSE InOrder(text, debug)

Texts == {<<a, b, c, d, Data(1)>> :
  a \in {Data(3), Branch(Symbol(5)), Delta("uleb", 2, 4)},
  b \in {Branch(Symbol(4)), Branch(Symbol(1)), Align(4), Delta("frame", 1, 5)},
  c \in {Data(2), Branch(Symbol(1)), Branch(NoSymbol), Align(2)},
  d \in {Branch(Symbol(2)), Branch(Symbol(6)), Org(16), Delta("uleb", 1, 3)}}
Debugs == {<<Delta("uleb", 1, 5), Branch(Symbol(2))>>,
           <<Delta("frame", 3, 5), Branch(Symbol(6))>>}

(* Differences measured across padding: as their encoding grows by a byte,   *)
(* the padding may shrink by that byte, and the other way round, for ever.   *)
Padded == {<<Data(m), Delta("uleb", 3, 5), Data(n), pad, Data(1)>> :
             m \in 0..3, n \in 0..3, pad \in {Align(2), Align(4), Org(8)}}

MCPrograms ==
  {[fragments |-> Placed(t, d, first), relaxAll |-> all] :
     t \in Texts \cup Padded, d \in Debugs, first \in BOOLEAN, all \in BOOLEAN}
=============================================================================
