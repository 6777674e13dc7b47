---------------------------- MODULE MCGitLabHttp ----------------------------
(* GitLabHttp on a small instance. *)
EXTENDS GitLabHttp

V4(a, b, c, d) == [v4 |-> <<a, b, c, d>>]
MCAnswerLists == {
    <<>>,
    <<V4(8, 8, 8, 8)>>,
    <<V4(8, 8, 8, 8), V4(10, 0, 0, 1)>>,
    <<Mapped(<<192, 168, 1, 1>>)>>,
    <<InFull(Zeros(5) \o <<65535, 32512, 1>>)>>,
    <<[left |-> <<65152>>, gap |-> TRUE, right |-> <<1>>, tail |-> <<>>]>>,
    <<[left |-> <<9734, 18176>>, gap |-> TRUE, right |-> <<17>>, tail |-> <<>>], V4(1, 1, 1, 1)>>,
    <<[left |-> <<8193, 3512>>, gap |-> TRUE, right |-> <<>>, tail |-> <<>>]>>}
=============================================================================
