------------------------------- MODULE MCParts -------------------------------
(* Small instances of the components that share no state with each other.  *)
EXTENDS SideBySide, TLC

CONSTANTS x1, x2, x3, y1, y2, z1, z2   \* the actors, whatever they are in each

Symmetry ==
    Permutations({x1, x2}) \cup Permutations({y1, y2}) \cup Permutations({z1, z2})

NoPack == Nothing
Pack(q, u) == [qty |-> q, unit |-> u]

MCWants ==
    [qty : {0, 450}, unit : {"g"}, brand : {Nothing, "ours"}]
      \cup {[qty |-> 1, unit |-> u, brand |-> Nothing] : u \in {"kg", "ml", "cup", Nothing}}
      \cup {[qty |-> Nothing, unit |-> Nothing, brand |-> Nothing]}

Variants ==
    [spin : {1}, pack : {NoPack, Pack(250, "g"), Pack(500, "g"), Pack(1, "kg"), Pack(0, "g"),
                         Pack(300, "ml"), Pack(6, "pieces")},
     price : {Nothing, 10, 20}, brand : {"ours", "other"}, stock : BOOLEAN]

MCFirstAnswers ==
    {<<>>} \cup {<<v>> : v \in Variants}
           \cup {<<v, [w EXCEPT !.spin = 2]>> : v \in Variants, w \in Variants}

MCLaterAnswers ==
    {<<[spin |-> 1, pack |-> Pack(500, "g"), price |-> 5, brand |-> "ours", stock |-> FALSE],
       [spin |-> 3, pack |-> Pack(200, "g"), price |-> 10, brand |-> "ours", stock |-> TRUE],
       [spin |-> 2, pack |-> NoPack, price |-> 10, brand |-> "other", stock |-> TRUE]>>}

Line(n, q, u) == [name |-> n, qty |-> q, unit |-> u, staple |-> FALSE, supplied |-> FALSE]

MCLines ==
    [name : {"onion"}, qty : {1, 2, Unknown}, unit : {"g", "cup", Unknown},
     staple : {FALSE}, supplied : {FALSE}]
      \cup {Line("salt", 5, "g"), Line("salt", 500, "g"), Line("salt", 1, "kg"),
            Line("salt", Unknown, Unknown)}
      \cup {[Line("chilli", 2, "g") EXCEPT !.staple = TRUE],
            [Line("chilli", 600, "g") EXCEPT !.staple = TRUE],
            [Line("onion", 4, "g") EXCEPT !.supplied = TRUE], Line("chilli", 3, "g")}

MCMarks == {{}, {"onion"}, {"salt", "garlic"}}
=============================================================================
