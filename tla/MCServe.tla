------------------------------- MODULE MCServe -------------------------------
(* Small instances of Serve for TLC. *)
EXTENDS Serve, TLC

Listen(s) == [listen |-> s, passed |-> <<>>]
Passed(s) == [listen |-> <<>>, passed |-> s]

\* Both kinds of sockets, each kind listed twice, activation, both and neither.
AllConfigs ==
    {Listen(<<"tcp", "unix">>), Listen(<<"unix", "unix">>), Listen(<<"unix", "tcp">>),
     Listen(<<"tcp", "tcp">>), Passed(<<"tcp", "unix">>),
     [listen |-> <<"tcp">>, passed |-> <<"unix">>], Listen(<<>>)}

OneConfig == {Listen(<<"unix", "tcp">>)}

=============================================================================
