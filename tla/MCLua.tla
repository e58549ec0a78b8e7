------------------------------- MODULE MCLua -------------------------------
(* Lua on a small instance: upstream tables with and without a key. *)
EXTENDS Lua, TLC

CONSTANTS s1, s2, s3

T(host, user, known, env, key, password) ==
    [host |-> host, user |-> user, known |-> known, env |-> env, key |-> key,
     password |-> password]

MCTables ==
    {T("string", "nil", "nil", "nil", "nil", "nil"),
     T("string", "string", "string", "pairs", "string", "nil")}

\* Two of them ask users; only the first is told of pipes that fail.
MCFunctions == (s1 :> {"keyboard", "createerror", "password", "newconn"})
            @@ (s2 :> {"keyboard", "next", "banner", "error", "authfailure"})
            @@ (s3 :> {"publickey", "noauth", "hostkey", "start"})
============================================================================
