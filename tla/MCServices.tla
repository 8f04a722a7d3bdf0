----------------------------- MODULE MCServices -----------------------------
(***************************************************************************)
(* Model of Services.                                                      *)
(***************************************************************************)
EXTENDS Services, TLC

\* Three calls of two processes.
SomeCalls == {<<"p1", 1>>, <<"p1", 2>>, <<"p2", 1>>}

\* Two inflows and two outflows: both inflows after the outflow closest by value,
\* an outflow of the asset before one of the value, and a failed leg of each
\* direction.
SmallLeg == [asset |-> "a", value |-> 1, time |-> 1, status |-> "CONFIRMED"]
LargeLeg == [asset |-> "a", value |-> 2, time |-> 2, status |-> "CONFIRMED"]
OtherLeg == [asset |-> "b", value |-> 2, time |-> 2, status |-> "CONFIRMED"]
FailedLeg == [asset |-> "a", value |-> 1, time |-> 1, status |-> "FAILED"]

LegData == {SmallLeg, LargeLeg, OtherLeg, FailedLeg}

LegBooks ==
  {<<LargeLeg, OtherLeg, LargeLeg, SmallLeg>>, <<FailedLeg, LargeLeg, SmallLeg, OtherLeg>>,
   <<LargeLeg, SmallLeg, FailedLeg, SmallLeg>>}

\* Deposits on both sides of the flat fee and of the cap, and between.
DepositAmounts ==
  {1, 66, 67, 10000, 12000000, 13000000} \cup 236245..236252 \cup 240000..240003
    \cup 246247..246252 \cup 249998..250001 \cup 12676665..12676669

\* Two wallets of one subject, the second of which another subject has too.
SomeIdentities == {<<"s", "w1">>, <<"s", "w2">>, <<"t", "w2">>}

\* Two subjects with a wallet each and one that both have.
SomeMembers == SomeIdentities \cup {<<"t", "w3">>}

\* Permutations of a joined with those of b, identity with identity.
Exchange(a, b) ==
  LET moves(p, s) == \E r \in s : p[r] # r
  IN {p @@ q : <<p, q>> \in
        {x \in Permutations(a) \X Permutations(b) : moves(x[1], a) <=> moves(x[2], b)}}

\* Requests of a kind are alike, and no property here is temporal.  A state has
\* the requests of one component, so one exchange serves two of them.
Symmetry == Exchange(Starts, Asks) \cup Exchange(Links, Binds)
=============================================================================
