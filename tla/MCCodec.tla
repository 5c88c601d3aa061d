------------------------------ MODULE MCCodec ------------------------------
(* Values for the constants of Codec: for every type its edges, and tables *)
(* and arrays inside each other.                                            *)
EXTENDS Codec

Edges(w) == {0, 1, Base ^ w \div 2 - 1}

TheValues ==
    {FieldValue("t", n) : n \in 0..1}
    \cup UNION {{FieldValue(t, n) : n \in Edges(Width[t])
                                       \cup {-1, 0 - (Base ^ Width[t]) \div 2}}
                   : t \in IsSigned}
    \cup UNION {{FieldValue(t, n) : n \in Edges(Width[t])
                                       \cup {Base ^ Width[t] - 1}}
                   : t \in {"B", "u", "i", "T"}}
    \cup {FieldValue(t, [i \in 1..Octets[t] |-> i % Base]) : t \in DOMAIN Octets}
    \cup {FieldValue(t, s) : t \in {"S", "x"},
                             s \in {<<>>, <<0>>, [i \in 1..(Base + 1) |-> i % Base]}}
    \cup {FieldValue("V", 0)}
    \cup {FieldValue("A", <<>>),
          FieldValue("A", <<FieldValue("V", 0), FieldValue("U", -1)>>),
          FieldValue("A", <<FieldValue("A", <<FieldValue("t", 1)>>),
                            FieldValue("F", <<>>)>>),
          FieldValue("F", <<>>),
          FieldValue("F", << <<<<>>, FieldValue("U", 2)>>,
                             <<<<3, 3>>, FieldValue("A", <<>>)>> >>),
          FieldValue("F", << <<<<2>>, FieldValue("t", 0)>> >>),
          FieldValue("F", << <<<<2>>, FieldValue("t", 1)>>,
                             <<<<2>>, FieldValue("t", 0)>> >>),
          FieldValue("F", << <<<<1>>, FieldValue("F",
                                << <<<<2>>, FieldValue("b", -1)>> >>)>> >>)}

ThePads == {0, 7, 14, 21}

TheVhosts == {<<>>, [i \in 1..(Base - 1) |-> i % Base]}

LongText == [i \in 1..Base |-> 1]

Gives(allow, authdata, mechanism, reason) ==
    [allow |-> allow, authdata |-> authdata, mechanism |-> mechanism,
     credentials |-> <<4>>, reason |-> reason]

TheAnswers == {Gives(TRUE, FALSE, <<>>, <<>>), Gives(TRUE, TRUE, <<3>>, <<>>),
               Gives(TRUE, TRUE, <<3>>, <<2>>), Gives(TRUE, TRUE, LongText, <<>>),
               Gives(FALSE, FALSE, <<>>, <<2>>), Gives(FALSE, FALSE, <<>>, LongText)}
=============================================================================
