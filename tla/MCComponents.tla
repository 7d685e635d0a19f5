---------------------------- MODULE MCComponents ----------------------------
EXTENDS Components

MCOrder == <<"loader", "mappings", "minecraft", "lwjgl">>
MCBuiltin == [u \in {"lwjgl"} |-> 1]

Some(u) == [uid |-> u, equals |-> 0, suggests |-> 0]
Just(u, v) == [uid |-> u, equals |-> v, suggests |-> 0]
Rather(u, v) == [uid |-> u, equals |-> 0, suggests |-> v]
Needs(rs) == [requires |-> rs, volatile |-> FALSE]
Part(rs) == [requires |-> rs, volatile |-> TRUE]

\* As for Fabric: the mappings follow Minecraft and hold it to its version.
Fabric == [e \in {<<"minecraft", 1>>, <<"minecraft", 2>>, <<"lwjgl", 1>>, <<"lwjgl", 2>>,
                  <<"mappings", 1>>, <<"loader", 1>>} |->
  CASE e = <<"minecraft", 1>> -> Needs({Rather("lwjgl", 2)})
    [] e = <<"minecraft", 2>> -> Needs({Just("lwjgl", 2)})
    [] e = <<"loader", 1>> -> Needs({Some("mappings"), Some("lwjgl")})
    [] e = <<"mappings", 1>> -> Part({Just("minecraft", 1)})
    [] OTHER -> Part({})]
\* One that needs another that needs a third, in versions that may contradict each other.
Chain == [e \in {<<"minecraft", 1>>, <<"minecraft", 2>>, <<"lwjgl", 1>>, <<"lwjgl", 2>>,
                 <<"mappings", 1>>, <<"mappings", 2>>, <<"loader", 1>>, <<"loader", 2>>} |->
  CASE e = <<"minecraft", 1>> -> Needs({})
    [] e = <<"minecraft", 2>> -> Needs({Just("lwjgl", 1)})
    [] e = <<"loader", 1>> -> Needs({Some("mappings")})
    [] e = <<"loader", 2>> -> Needs({Just("mappings", 2)})
    [] e = <<"mappings", 1>> -> Part({Some("lwjgl")})
    [] e = <<"mappings", 2>> -> Part({Just("lwjgl", 2)})
    [] e = <<"lwjgl", 1>> -> Part({})
    \* Nothing tells which version of the loader.
    [] e = <<"lwjgl", 2>> -> Part({Some("loader")})]
MCMetadata == {Fabric, Chain}
=============================================================================
