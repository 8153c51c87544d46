----------------------------- MODULE MCHostport -----------------------------
(* All inputs of up to 6 characters from a small alphabet, and longer ones  *)
(* that are put together from hosts and ports.                              *)
EXTENDS Hostport

Chars == {"a", "1", ".", ":", "[", "]", "-"}
Short == UNION {[1 .. n -> Chars] : n \in 0 .. 6}

V4 == <<"1", ".", "0", ".", "9", "2", ".", "1">>
V6 == {<<":", ":">>, <<":", ":", "1">>, <<"f", ":", ":", "a">>, <<":", ":", "f", ":">> \o V4,
       <<"1", ":", "2", ":", "3", ":", "4", ":", "5", ":", "6", ":", "7", ":", "8">>}
Known == {[family |-> "INET", text |-> V4]} \cup {[family |-> "INET6", text |-> t] : t \in V6}

TwoAnswers == {<<[family |-> "INET", text |-> V4], [family |-> "INET6", text |-> <<":", ":", "1">>]>>}

AllConfigurations == SUBSET {"INET", "INET6"} \ {{}}

Hosts == {V4, <<"1", ".", "1", ".", "z", ".", "1">>, <<"1", ".", ".", "2", ".", "3">>, <<"z", "-", "1", ".", "a", ".">>,
          <<"[", "f", "1", "a", "0", "1", "]">>, <<"[", "f", "1", "a", "0", "1", ":", "]">>,
          <<"[", ":", ":", "1", ":", ":", "]">>, <<"[", "1", ":", "1", ":", ":", "]">>, <<"[", "z", "]">>}
         \cup {<<"[">> \o t \o <<"]">> : t \in V6 \cup {<<"1", ":">> \o V4, V4}} \cup {<<"[">> \o t : t \in V6}
PortTexts == {<< >>, <<":">>, <<":", "0">>, <<":", "0", "7">>, <<":", "1", "a">>, <<"a">>}
             \cup {<<":">> \o Decimal(n) : n \in {1, 80, 65535, 65536, 65540, 655350}}
AllInputs == Short \cup {a \o b : a \in Hosts, b \in PortTexts} \cup {<<"/", "a">>}
=============================================================================
