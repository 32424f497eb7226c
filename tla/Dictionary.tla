------------------------------ MODULE Dictionary ------------------------------
(* What a map promises to its clients: it holds what has been put into it    *)
(* and not taken out, whatever becomes of its buckets, and every call has    *)
(* its effect once and gets to know what the key was mapped to.              *)
CONSTANTS Keys, Values, NoValue
VARIABLES dict, call, answer

NoCall == [op |-> "none", key |-> NoValue, value |-> NoValue]
Calls ==
  [op : {"find", "insert", "assign", "erase"}, key : Keys,
   value : Values \cup {NoValue}]

With(d, k, v) == [j \in DOMAIN d \cup {k} |-> IF j = k THEN v ELSE d[j]]
Without(d, k) == [j \in DOMAIN d \ {k} |-> d[j]]
Nothing == [k \in {} |-> NoValue]

Effect(c, d) ==
  CASE c.op = "insert" -> IF c.key \in DOMAIN d THEN d ELSE With(d, c.key, c.value)
    [] c.op = "assign" -> With(d, c.key, c.value)
    [] c.op = "erase" -> Without(d, c.key)
    [] OTHER -> d

Init == dict = Nothing /\ call = NoCall /\ answer = NoValue

Begin ==
  /\ call = NoCall /\ call' \in Calls
  /\ UNCHANGED <<dict, answer>>

End ==
  /\ call # NoCall /\ call' = NoCall
  /\ answer' = IF call.key \in DOMAIN dict THEN dict[call.key] ELSE NoValue
  /\ dict' = Effect(call, dict)

Clear == call = NoCall /\ dict' = Nothing /\ UNCHANGED <<call, answer>>

Next == Begin \/ End \/ Clear

Spec == Init /\ [][Next]_<<dict, call, answer>>
=============================================================================
