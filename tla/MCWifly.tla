------------------------------ MODULE MCWifly ------------------------------
(* Instances of Wifly for TLC: the lines and scripts of the peer. *)
EXTENDS Wifly

CONSTANTS s1, s2

Eol == <<"\r", "\n">>

Hello    == <<"*", "h", "*">> \o Eol
Status   == <<"*", "x", "*">> \o Eol
Version  == <<"v">> \o Eol
Forward  == <<"f", " ", "1">> \o Eol
Unknown  == <<"x">> \o Eol
Empty    == Eol
Blank    == <<" ", "x">> \o Eol
Short    == <<"x", "\n">>
LongWord == <<"x", "x", "x", "\n">>
LongArgs == <<"f", " ", "1", "1", "\n">>

Scenario(p, q, r, l) == [pace |-> p, quota |-> q, room |-> r, script |-> l]

Sessions ==
  {Scenario("prompt", 0, 2, l) :
     l \in {<<Empty, Hello, Version>>, <<Forward, Status>>,
            <<Unknown, Blank, Forward>>}}
  \cup {Scenario("any", 2, 8, l) : l \in {<<>>, <<Forward, Version>>}}
  \cup {Scenario("any", 1, 8, <<Blank>>)}
  \cup {Scenario("noisy", 0, 2, <<l>>) : l \in {LongWord, LongArgs}}
  \cup {Scenario("noisy", 1, 2, <<Short>>)}

OneLine == {Scenario("polite", 0, 8, <<Hello>>)}
=============================================================================
