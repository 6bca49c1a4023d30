---------------------------- MODULE MCMasterDemo ----------------------------
(***************************************************************************)
(* MasterDemo for TLC.                                                     *)
(***************************************************************************)
EXTENDS MasterDemo

Token(op, arg) == [op |-> op, arg |-> arg]

\* Every case of the switch with the arguments it takes and some it ignores:
\* none, a row on the screen, a row that may be missing, the characters after
\* '9' and before '0', and two digits.
MCArgs == {<<>>, <<0>>, <<1>>, <<10>>, <<-1>>, <<1, 0>>}
MCTokens ==
  {Token(op, arg) : op \in {"p", "c"}, arg \in MCArgs}
    \cup {Token("d", <<1>>), Token("u", <<0>>), Token("s", <<CharP>>), Token("s", <<CharC>>),
          Token("s", <<0>>), Token("x", <<>>), Token("l", <<>>), Token("?", <<>>)}

\* Commands that list the vehicles or name the eleventh of them.
MCLongTokens == {Token("l", <<>>), Token("p", <<1, 0>>)}
MCElevenNames == 1..11

\* Commands that name a vehicle by one digit.
MCShortTokens == {Token("l", <<>>), Token("c", <<0>>), Token("c", <<1>>)}
=============================================================================
