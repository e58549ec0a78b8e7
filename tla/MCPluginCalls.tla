--------------------------- MODULE MCPluginCalls ---------------------------
EXTENDS PluginCalls

R(kind, keys, key, uri, known) == [kind |-> kind, keys |-> keys, key |-> key, uri |-> uri, known |-> known]

MCReplies == {R("retry", {"k"}, "none", "ok", "empty"), R("next", {}, "none", "ok", "empty"),
              R("upstream", {}, "bad", "ok", "empty"), R("upstream", {}, "ok", "ok", "match"),
              R("upstream", {}, "none", "bad", "other"), R("upstream", {}, "none", "ok", "garbled")}

MCConfigs == {{"NewConnection", "NoneAuth", "KeyboardInteractiveAuth", "PipeCreateError"},
              {"PublicKeyAuth", "NextAuthMethods", "CreateConn", "VerifyHostKey"},
              {"PasswordAuth", "Banner", "UpstreamAuthFailure", "PipeStart", "PipeError", "ConfigLogger"}}

MCMethodLists == {<<"publickey", "password">>, <<"hostbased">>}
=============================================================================
