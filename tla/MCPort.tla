------------------------------- MODULE MCPort -------------------------------
(***************************************************************************)
(* Two reportmands and a client, or one reportmand and two clients.        *)
(***************************************************************************)
EXTENDS Port, TLC

CONSTANTS s1, s2, c1, c2

Long  == <<"get_timers", "close", "backup">>
Short == <<"get_timers", "close">>

Rivals  == {[mode   |-> s1 :> "plain" @@ s2 :> m,
             script |-> c1 :> Short @@ c2 :> <<>>] : m \in Mode \ {"absent"}}
Queuers == {[mode   |-> s1 :> "plain" @@ s2 :> "absent",
             script |-> c1 :> Long @@ c2 :> x] : x \in {<<"backup">>, Long}}
Everyone == Rivals \cup Queuers
=============================================================================
