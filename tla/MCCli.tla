--------------------------------- MODULE MCCli ---------------------------------
(* Two outputs in the store, "/s/a" and "/s/b", and a file "/a" of the     *)
(* user, who works in "/s".                                                *)
EXTENDS Cli, TLC

ProcSymmetry == Permutations(Procs)

MCStore == {<<"s", "a">>, <<"s", "b">>}
MCOther == {<<"a">>}
MCCwd == <<"s">>

Absolute(segs) == [root |-> TRUE, segs |-> segs]
Relative(segs) == [root |-> FALSE, segs |-> segs]

AbsoluteSpellings ==
    {Absolute(<<"s", "a">>), Absolute(<<"s", "a", "">>), Absolute(<<"", "s", ".", "a">>),
     Absolute(<<"s", "..", "s", "a">>), Absolute(<<"s", "b">>)}

AllSpellings ==
    AbsoluteSpellings \cup {Relative(<<"a">>), Relative(<<".", "a">>), Relative(<<"..", "a">>)}
=============================================================================
